---- MODULE Spec2Model ----
(***************************************************************************)
(* Model of the node server of the GCE PD CSI driver                       *)
(* (pkg/gce-pd-csi-driver/node.go): the four lifecycle handlers            *)
(* NodeStageVolume, NodePublishVolume, NodeUnpublishVolume and             *)
(* NodeUnstageVolume, the per-volume lock they take, the device-in-use     *)
(* record map consulted by NodeUnstageVolume and the format-and-mount      *)
(* limiter used by NodeStageVolume.                                        *)
(*                                                                         *)
(* Every gRPC call is a process (a "call slot") that runs one handler at a *)
(* time.  A handler is cut into steps only where it touches state shared   *)
(* with other calls: the TryAcquire at its head, the body run under the    *)
(* volume lock, the wait for a format-and-mount slot.  Collaborators       *)
(* (device resolution, mount, unmount, mkdir, cache set-up and tear-down,  *)
(* resize) are external: each invocation draws its outcome from the        *)
(* outcomes the handler distinguishes.                                     *)
(*                                                                         *)
(* The handlers and functions that take no volume lock are applied to      *)
(* their arguments in specifications of their own: the mount options of    *)
(* NodeStageVolume and NodePublishVolume with the journal-skip fallback    *)
(* (SpecOptions), NodeExpandVolume (SpecExpand), GetVolumeLimits and       *)
(* NodeGetInfo (SpecLimits).                                               *)
(*                                                                         *)
(* Further specifications follow one concern each: a caller retrying       *)
(* NodeUnstageVolume while the clock runs (SpecRetry), a caller staging a  *)
(* volume again after a failure past the mount (SpecRestage),              *)
(* NodeExpandVolume and NodeGetVolumeStats called beside the lifecycle     *)
(* handlers (SpecBeside), and calls arriving for a volume whose Stage call *)
(* waits for a format-and-mount slot (SpecArrivals).                       *)
(***************************************************************************)
EXTENDS Integers, Sequences, FiniteSets, TLC

\* ---------------------------------------------------------------- bounds
NumCalls == 2               \* concurrent call slots
MaxTime == 3                \* the wall clock runs 0..MaxTime
DeviceInUseTimeout == 2     \* --device-in-use-timeout, in clock ticks
FormatAndMountTimeout == 1  \* formatAndMountTimeout, in clock ticks
MaxConcurrent == 1          \* capacity of formatAndMountSemaphore
MaxFailures == 3            \* the in-use failure streak is counted up to here

Procs == 1..NumCalls
Volumes == {"vol-a", "vol-b"}
Times == 0..MaxTime
NoReq == [op |-> "none"]
NoArgs == [fn |-> "none"]
NoRet == [fn |-> "none"]

\* ---------------------------------------------------------------- state
VARIABLES
    volumeLocks,              \* ns.volumeLocks: the volume IDs with an ongoing operation
    deviceInUseErrors,        \* ns.deviceInUseErrors: map from volume ID to the time of its in-use error
    formatAndMountSemaphore,  \* number of items in the ns.formatAndMountSemaphore channel
    now,                      \* time.Now()
    stagingMounted,           \* kernel: is the staging path of the volume a mount point
    targetMounted,            \* kernel: is the target path of the volume a mount point
    enableDeviceInUseCheck,   \* ns.enableDeviceInUseCheck
    EnableDataCache,          \* ns.EnableDataCache
    DataCacheEnabledNodePool, \* ns.DataCacheEnabledNodePool
    pc,                       \* position of each call in its handler
    req,                      \* the request each call is serving
    res,                      \* the gRPC code each finished call returned
    eff,                      \* collaborators each call has invoked, in order
    obs,                      \* what confirmDeviceUnused returned to the call
    holdsSlot,                \* does the call hold a format-and-mount slot
    waitSince,                \* when the call started waiting for a slot
    attempt,                  \* format-and-mount attempts the call has made
    retryOf,                  \* history: the call repeats the request that staged / published the volume, still mounted
    stagedBy,                 \* history: request of the Stage call that mounted the staging path and succeeded
    publishedBy,              \* history: request of the Publish call that mounted the target path and succeeded
    inUseFailures,            \* history: the streak of Unstage calls of the volume failed by the in-use check
    postMountFailure,         \* history: request of the Stage call that mounted the staging path and then failed
    retryWindow,              \* history: when the caller's Unstage retries first saw the volume's device in use, when the call in flight was issued
    args,                     \* the arguments of a function or handler applied outside the lifecycle
    ret                       \* what it returned

shared == <<volumeLocks, deviceInUseErrors, formatAndMountSemaphore, stagingMounted, targetMounted>>
config == <<enableDeviceInUseCheck, EnableDataCache, DataCacheEnabledNodePool>>
local == <<pc, req, res, eff, obs, holdsSlot, waitSince, attempt, retryOf>>
history == <<stagedBy, publishedBy, inUseFailures, retryWindow, postMountFailure>>
applied == <<args, ret>>
vars == <<shared, config, local, history, now, applied>>

\* ---------------------------------------------------------------- requests
\* A request names the handler and the volume and carries the fields the
\* handlers branch on:
\*   defect  "none", or what is wrong with it: "missingField" (an empty volume
\*           ID, path or a nil capability), "badCapability"
\*           (validateVolumeCapability fails), "badVolumeID" (VolumeIDToKey fails)
\*   cap     "mount" or "block": the access type of the volume capability
\*   ro      the capability's access mode is read-only (Stage), req.Readonly (Publish)
\*   fsType  mnt.FsType, "" when the request does not set it
\*   ra      the read_ahead_kb mount flag: "none", "valid" or "invalid"
\*   cache   data-cache parameters of the publish context: "none", "valid", "invalid"
\*   reclaim the flags carry a btrfs reclaim-threshold token
Request(op, v, defect, cap, ro, fsType, ra, cache, reclaim) ==
    [op |-> op, vol |-> v, defect |-> defect, cap |-> cap, ro |-> ro,
     fsType |-> fsType, ra |-> ra, cache |-> cache, reclaim |-> reclaim]

Plain(op, v) == Request(op, v, "none", "mount", FALSE, "", "none", "none", FALSE)
Defective(op, v, d) == [Plain(op, v) EXCEPT !.defect = d]

\* ---------------------------------------------------------------- helpers
MapPut(m, k, x) == [y \in DOMAIN m \cup {k} |-> IF y = k THEN x ELSE m[y]]
MapDelete(m, k) == [y \in DOMAIN m \ {k} |-> m[y]]

\* A handler's result: it returned `code` (to = "done") or goes on to its
\* next step, having invoked the collaborators `e`.
Done(code, e) == [to |-> "done", code |-> code, eff |-> e]
GoOn(to, e) == [to |-> to, code |-> "none", eff |-> e]

\* ---------------------------------------------------------------- common.VolumeLocks
\* TryAcquire tests and inserts under one mutex; Release removes.
TryAcquire(locks, v) == v \notin locks
Acquire(locks, v) == locks \cup {v}
Release(locks, v) == locks \ {v}

\* ---------------------------------------------------------------- deviceErrMap
deviceErrorExpired(errs, v, t) ==
    v \in DOMAIN errs /\ t - errs[v] >= DeviceInUseTimeout
markDeviceError(errs, v, t) ==
    IF v \in DOMAIN errs THEN errs ELSE MapPut(errs, v, t)
deleteDevice(errs, v) == MapDelete(errs, v)

\* ---------------------------------------------------------------- constants of node.go
defaultLinuxFsType == "ext4"
fsTypeExt3 == "ext3"
fsTypeBtrfs == "btrfs"
getDefaultFsType == defaultLinuxFsType

\* Mounter.IsLikelyNotMountPoint stats the path: on a mount point the stat
\* succeeds and the answer is (false, nil); where nothing is mounted the answer
\* is (true, nil), or (true, err) when the path cannot be stat'ed.
StatErrs(mounted) == IF mounted THEN {FALSE} ELSE BOOLEAN
IsLikelyNotMountPoint(mounted, statErr) ==
    [notMnt |-> ~mounted \/ statErr, err |-> statErr]

isVolumePathMounted(probe) == ~probe.err /\ ~probe.notMnt

\* ---------------------------------------------------------------- responses
Respond(p, code) ==
    /\ pc' = [pc EXCEPT ![p] = "done"]
    /\ res' = [res EXCEPT ![p] = code]

\* A call slot is free before its first call and after its call returned.
Free(p) == pc[p] \in {"idle", "done"}

\* The slot starts serving r with a clean record of the call.
Accept(p, r) ==
    /\ req' = [req EXCEPT ![p] = r]
    /\ eff' = [eff EXCEPT ![p] = <<>>]
    /\ obs' = [obs EXCEPT ![p] = "none"]
    /\ attempt' = [attempt EXCEPT ![p] = 0]

\* ================================================================ NodeStageVolume
\* Validation of the required fields and TryAcquire.
\* Fault variant of the Stage entry: one lock for the whole node instead of one
\* per volume.
NodeStageVolume_Entry_NodeLock(r, locks) ==
    IF r.defect = "missingField" THEN "InvalidArgument"
    ELSE IF locks # {} THEN "Aborted"
    ELSE "acquired"

\* Fault variant of the Stage entry: the body is entered without consulting the
\* lock registry.
NodeStageVolume_Entry_Unlocked(r, locks) ==
    IF r.defect = "missingField" THEN "InvalidArgument" ELSE "acquired"

NodeStageVolume_Entry(r, locks) ==
    IF r.defect = "missingField" THEN "InvalidArgument"
    ELSE IF ~TryAcquire(locks, r.vol) THEN "Aborted"
    ELSE "acquired"

\* defer ns.volumeLocks.Release(volumeID)
NodeStageVolume_Defer(locks, v) == Release(locks, v)

\* The cache-config validator: nil only for valid parameters on a node pool
\* that is cache-enabled.
ValidateDataCacheConfig(cache, pool) == cache = "valid" /\ pool

\* From validateVolumeCapability to the options of the mount: everything
\* before the first formatAndMount.
\* Fault variant of the Stage preparation: a block capability is mounted like
\* a mount capability.
NodeStageVolume_Prepare_BlockMounted(r, dataCache, pool, probe, devOK, cacheRes, mkdirOK) ==
    IF r.defect \in {"badCapability", "badVolumeID"} THEN Done("InvalidArgument", <<>>)
    ELSE IF ~devOK THEN Done("Internal", <<"getDevicePath">>)
    ELSE LET wantsCache == dataCache /\ r.cache # "none"
             e1 == <<"getDevicePath">> \o (IF wantsCache THEN <<"setupCaching">> ELSE <<>>)
         IN  IF wantsCache /\ ~ValidateDataCacheConfig(r.cache, pool)
               THEN Done(IF pool THEN "DataLoss" ELSE "InvalidArgument", <<"getDevicePath">>)
             ELSE IF wantsCache /\ cacheRes # "ok"
               THEN Done(IF cacheRes = "invalidArgument" THEN "InvalidArgument" ELSE "DataLoss", e1)
             ELSE IF isVolumePathMounted(probe) THEN Done("OK", e1)
             ELSE IF ~mkdirOK THEN Done("Internal", e1 \o <<"mkdir">>)
             ELSE IF r.cap = "mount" /\ r.ra = "invalid"
               THEN Done("InvalidArgument", e1 \o <<"mkdir">>)
             ELSE GoOn("fm_reserve", e1 \o <<"mkdir">>)

\* Fault variant of the Stage preparation: the mount-point probe of the staging
\* path is not consulted.
NodeStageVolume_Prepare_NoProbe(r, dataCache, pool, probe, devOK, cacheRes, mkdirOK) ==
    IF r.defect \in {"badCapability", "badVolumeID"} THEN Done("InvalidArgument", <<>>)
    ELSE IF ~devOK THEN Done("Internal", <<"getDevicePath">>)
    ELSE LET wantsCache == dataCache /\ r.cache # "none"
             e1 == <<"getDevicePath">> \o (IF wantsCache THEN <<"setupCaching">> ELSE <<>>)
         IN  IF wantsCache /\ ~ValidateDataCacheConfig(r.cache, pool)
               THEN Done(IF pool THEN "DataLoss" ELSE "InvalidArgument", <<"getDevicePath">>)
             ELSE IF wantsCache /\ cacheRes # "ok"
               THEN Done(IF cacheRes = "invalidArgument" THEN "InvalidArgument" ELSE "DataLoss", e1)
             ELSE IF ~mkdirOK THEN Done("Internal", e1 \o <<"mkdir">>)
             ELSE IF r.cap = "mount"
               THEN IF r.ra = "invalid"
                      THEN Done("InvalidArgument", e1 \o <<"mkdir">>)
                      ELSE GoOn("fm_reserve", e1 \o <<"mkdir">>)
             ELSE Done("OK", e1 \o <<"mkdir">>)

\* Fault variant of the Stage preparation: the volume ID is parsed only after
\* the staging directory was made.
NodeStageVolume_Prepare_LateVolumeID(r, dataCache, pool, probe, devOK, cacheRes, mkdirOK) ==
    IF r.defect = "badCapability" THEN Done("InvalidArgument", <<>>)
    ELSE IF ~devOK THEN Done("Internal", <<"getDevicePath">>)
    ELSE LET wantsCache == dataCache /\ r.cache # "none"
             e1 == <<"getDevicePath">> \o (IF wantsCache THEN <<"setupCaching">> ELSE <<>>)
         IN  IF wantsCache /\ ~ValidateDataCacheConfig(r.cache, pool)
               THEN Done(IF pool THEN "DataLoss" ELSE "InvalidArgument", <<"getDevicePath">>)
             ELSE IF wantsCache /\ cacheRes # "ok"
               THEN Done(IF cacheRes = "invalidArgument" THEN "InvalidArgument" ELSE "DataLoss", e1)
             ELSE IF isVolumePathMounted(probe) THEN Done("OK", e1)
             ELSE IF ~mkdirOK THEN Done("Internal", e1 \o <<"mkdir">>)
             ELSE IF r.defect = "badVolumeID" THEN Done("InvalidArgument", e1 \o <<"mkdir">>)
             ELSE IF r.cap = "mount"
               THEN IF r.ra = "invalid"
                      THEN Done("InvalidArgument", e1 \o <<"mkdir">>)
                      ELSE GoOn("fm_reserve", e1 \o <<"mkdir">>)
             ELSE Done("OK", e1 \o <<"mkdir">>)

\* Fault variant of the Stage preparation: the cache is set up before its
\* parameters are validated.
NodeStageVolume_Prepare_CacheBeforeValidation(r, dataCache, pool, probe, devOK, cacheRes, mkdirOK) ==
    IF r.defect \in {"badCapability", "badVolumeID"} THEN Done("InvalidArgument", <<>>)
    ELSE IF ~devOK THEN Done("Internal", <<"getDevicePath">>)
    ELSE LET wantsCache == dataCache /\ r.cache # "none"
             e1 == <<"getDevicePath">> \o (IF wantsCache THEN <<"setupCaching">> ELSE <<>>)
         IN  IF wantsCache /\ ~ValidateDataCacheConfig(r.cache, pool)
               THEN Done(IF pool THEN "DataLoss" ELSE "InvalidArgument", e1)
             ELSE IF wantsCache /\ cacheRes # "ok"
               THEN Done(IF cacheRes = "invalidArgument" THEN "InvalidArgument" ELSE "DataLoss", e1)
             ELSE IF isVolumePathMounted(probe) THEN Done("OK", e1)
             ELSE IF ~mkdirOK THEN Done("Internal", e1 \o <<"mkdir">>)
             ELSE IF r.cap = "mount"
               THEN IF r.ra = "invalid"
                      THEN Done("InvalidArgument", e1 \o <<"mkdir">>)
                      ELSE GoOn("fm_reserve", e1 \o <<"mkdir">>)
             ELSE Done("OK", e1 \o <<"mkdir">>)

NodeStageVolume_Prepare(r, dataCache, pool, probe, devOK, cacheRes, mkdirOK) ==
    IF r.defect \in {"badCapability", "badVolumeID"} THEN Done("InvalidArgument", <<>>)
    ELSE IF ~devOK THEN Done("Internal", <<"getDevicePath">>)
    ELSE LET wantsCache == dataCache /\ r.cache # "none"
             e1 == <<"getDevicePath">> \o (IF wantsCache THEN <<"setupCaching">> ELSE <<>>)
         IN  IF wantsCache /\ ~ValidateDataCacheConfig(r.cache, pool)
               THEN Done(IF pool THEN "DataLoss" ELSE "InvalidArgument", <<"getDevicePath">>)
             ELSE IF wantsCache /\ cacheRes # "ok"
               THEN Done(IF cacheRes = "invalidArgument" THEN "InvalidArgument" ELSE "DataLoss", e1)
             ELSE IF isVolumePathMounted(probe) THEN Done("OK", e1)
             ELSE IF ~mkdirOK THEN Done("Internal", e1 \o <<"mkdir">>)
             ELSE IF r.cap = "mount"
               THEN IF r.ra = "invalid"
                      THEN Done("InvalidArgument", e1 \o <<"mkdir">>)
                      ELSE GoOn("fm_reserve", e1 \o <<"mkdir">>)
             ELSE Done("OK", e1 \o <<"mkdir">>)

\* fstype and readonly as NodeStageVolume computes them.
StageFsType(r) == IF r.fsType # "" THEN r.fsType ELSE getDefaultFsType
StageRetryAllowed(r) ==
    r.ro /\ (StageFsType(r) = defaultLinuxFsType \/ StageFsType(r) = fsTypeExt3)

\* ns.updateReadAhead: stat is what IsBlockDevice answered.
updateReadAhead(stat, setOK) ==
    IF stat = "error" THEN [ok |-> FALSE, eff |-> <<"IsBlockDevice">>]
    ELSE IF stat = "notBlock" THEN [ok |-> TRUE, eff |-> <<"IsBlockDevice">>]
    ELSE [ok |-> setOK, eff |-> <<"IsBlockDevice", "setReadAheadKB">>]

\* Parts 4 to 6: resize, read-ahead, btrfs sysfs values.
NodeStageVolume_AfterMount(r, resizeOK, stat, setOK, blkidOK, sysfsOK) ==
    LET e4 == IF r.ro THEN <<>> ELSE <<"resize">>
        ra == updateReadAhead(stat, setOK)
        e5 == e4 \o (IF r.ra = "valid" THEN ra.eff ELSE <<>>)
        tunables == ~r.ro /\ r.fsType = fsTypeBtrfs /\ r.reclaim
    IN  IF ~r.ro /\ ~resizeOK THEN Done("Internal", e4)
        ELSE IF r.ra = "valid" /\ ~ra.ok THEN Done("Internal", e5)
        ELSE IF tunables /\ ~blkidOK THEN Done("Internal", e5 \o <<"blkid">>)
        ELSE IF tunables /\ ~sysfsOK THEN Done("Internal", e5 \o <<"blkid", "writeSysfs">>)
        ELSE Done("OK", e5 \o (IF tunables THEN <<"blkid", "writeSysfs">> ELSE <<>>))

\* Fault variant: every read-only mount that fails is tried again.
NodeStageVolume_Mounted_RetriesAll(r, n, fmOK, resizeOK, stat, setOK, blkidOK, sysfsOK) ==
    IF n = 1
      THEN IF fmOK THEN NodeStageVolume_AfterMount(r, resizeOK, stat, setOK, blkidOK, sysfsOK)
           ELSE IF r.ro THEN GoOn("fm_reserve", <<>>)
           ELSE Done("Internal", <<>>)
      ELSE IF fmOK THEN Done("OK", <<>>) ELSE Done("Internal", <<>>)

\* What follows a formatAndMount that answered fmOK, on attempt n.
NodeStageVolume_Mounted(r, n, fmOK, resizeOK, stat, setOK, blkidOK, sysfsOK) ==
    IF n = 1
      THEN IF fmOK THEN NodeStageVolume_AfterMount(r, resizeOK, stat, setOK, blkidOK, sysfsOK)
           ELSE IF StageRetryAllowed(r) THEN GoOn("fm_reserve", <<>>)
           ELSE Done("Internal", <<>>)
      ELSE IF fmOK THEN Done("OK", <<>>) ELSE Done("Internal", <<>>)

\* What one run of the step can come to, over the answers of its collaborators.
StagePrepareOutcomes(r, mounted, dataCache, pool) ==
    { NodeStageVolume_Prepare(r, dataCache, pool, IsLikelyNotMountPoint(mounted, statErr),
                              devOK, cacheRes, mkdirOK) :
        devOK \in BOOLEAN, mkdirOK \in BOOLEAN,
        cacheRes \in {"ok", "invalidArgument", "error"}, statErr \in StatErrs(mounted) }

StageMountOutcomes(r, n) ==
    { [fmOK |-> fmOK, stat |-> stat,
       then |-> NodeStageVolume_Mounted(r, n, fmOK, resizeOK, stat, setOK, blkidOK, sysfsOK)] :
        fmOK \in BOOLEAN, resizeOK \in BOOLEAN, setOK \in BOOLEAN, blkidOK \in BOOLEAN,
        sysfsOK \in BOOLEAN, stat \in {"error", "block", "notBlock"} }

StageBegin(p, r) ==
    /\ Free(p) /\ r.op = "Stage"
    /\ Accept(p, r)
    /\ LET e == NodeStageVolume_Entry(r, volumeLocks)
       IN  IF e = "acquired"
             THEN /\ volumeLocks' = Acquire(volumeLocks, r.vol)
                  /\ pc' = [pc EXCEPT ![p] = "stage_locked"]
                  /\ res' = [res EXCEPT ![p] = "none"]
                  /\ retryOf' = [retryOf EXCEPT ![p] =
                                     stagedBy[r.vol] = r /\ stagingMounted[r.vol]]
             ELSE /\ Respond(p, e)
                  /\ retryOf' = [retryOf EXCEPT ![p] = FALSE]
                  /\ UNCHANGED volumeLocks
    /\ UNCHANGED <<deviceInUseErrors, formatAndMountSemaphore, stagingMounted, targetMounted,
                   config, holdsSlot, waitSince, now>>

\* Fault variant: the lock of the volume is given back before the call goes
\* on to the limiter.
StagePrepare_ReleasesBeforeLimiter(p) ==
    /\ pc[p] = "stage_locked"
    /\ \E o \in StagePrepareOutcomes(req[p], stagingMounted[req[p].vol],
                                      EnableDataCache, DataCacheEnabledNodePool) :
         LET r == req[p]
         IN  /\ eff' = [eff EXCEPT ![p] = @ \o o.eff]
             /\ IF o.to = "done"
                  THEN /\ Respond(p, o.code)
                       /\ volumeLocks' = NodeStageVolume_Defer(volumeLocks, r.vol)
                       /\ UNCHANGED waitSince
                  ELSE /\ pc' = [pc EXCEPT ![p] = o.to]
                       /\ waitSince' = [waitSince EXCEPT ![p] = now]
                       /\ volumeLocks' = Release(volumeLocks, r.vol)
                       /\ UNCHANGED res
    /\ UNCHANGED <<deviceInUseErrors, formatAndMountSemaphore, stagingMounted, targetMounted,
                   config, req, obs, holdsSlot, attempt, retryOf, now>>

StagePrepare(p) ==
    /\ pc[p] = "stage_locked"
    /\ \E o \in StagePrepareOutcomes(req[p], stagingMounted[req[p].vol],
                                      EnableDataCache, DataCacheEnabledNodePool) :
         LET r == req[p]
         IN  /\ eff' = [eff EXCEPT ![p] = @ \o o.eff]
             /\ IF o.to = "done"
                  THEN /\ Respond(p, o.code)
                       /\ volumeLocks' = NodeStageVolume_Defer(volumeLocks, r.vol)
                       /\ UNCHANGED waitSince
                  ELSE /\ pc' = [pc EXCEPT ![p] = o.to]
                       /\ waitSince' = [waitSince EXCEPT ![p] = now]
                       /\ UNCHANGED <<res, volumeLocks>>
    /\ UNCHANGED <<deviceInUseErrors, formatAndMountSemaphore, stagingMounted, targetMounted,
                   config, req, obs, holdsSlot, attempt, retryOf, now>>

\* ---------------------------------------------------------------- ns.formatAndMount
\* The limiter in front of the format+mount sequence: with a semaphore of
\* capacity MaxConcurrent > 0 the call reserves a slot, waiting up to
\* FormatAndMountTimeout; when the wait exceeds the timeout it proceeds without
\* a slot.
formatAndMount_Reserve(sem, waited) ==
    IF MaxConcurrent <= 0 THEN "unlimited"
    ELSE IF sem < MaxConcurrent THEN "reserved"
    ELSE IF waited >= FormatAndMountTimeout THEN "bypass"
    ELSE "wait"

\* The slot is released when the format+mount sequence completes.
formatAndMount_Release(sem, held) == IF held THEN sem - 1 ELSE sem

\* Fault variants of the call of ns.formatAndMount.
\* A call that goes on past the timeout is counted as holding a slot too.
StageReserve_CountsBypass(p) ==
    /\ pc[p] = "fm_reserve"
    /\ LET how == formatAndMount_Reserve(formatAndMountSemaphore, now - waitSince[p])
       IN  /\ how # "wait"
           /\ holdsSlot' = [holdsSlot EXCEPT ![p] = (how \in {"reserved", "bypass"})]
           /\ formatAndMountSemaphore' =
                  IF how \in {"reserved", "bypass"} THEN formatAndMountSemaphore + 1
                  ELSE formatAndMountSemaphore
    /\ pc' = [pc EXCEPT ![p] = "fm_run"]
    /\ waitSince' = [waitSince EXCEPT ![p] = 0]
    /\ attempt' = [attempt EXCEPT ![p] = @ + 1]
    /\ UNCHANGED <<volumeLocks, deviceInUseErrors, stagingMounted, targetMounted, config,
                   req, res, eff, obs, retryOf, now>>

\* A call goes on only with a slot, however long it has waited.
StageReserve_WaitsForSlot(p) ==
    /\ pc[p] = "fm_reserve"
    /\ LET how == formatAndMount_Reserve(formatAndMountSemaphore, now - waitSince[p])
       IN  /\ how \notin {"wait", "bypass"}
           /\ holdsSlot' = [holdsSlot EXCEPT ![p] = (how = "reserved")]
           /\ formatAndMountSemaphore' =
                  IF how = "reserved" THEN formatAndMountSemaphore + 1
                  ELSE formatAndMountSemaphore
    /\ pc' = [pc EXCEPT ![p] = "fm_run"]
    /\ waitSince' = [waitSince EXCEPT ![p] = 0]
    /\ attempt' = [attempt EXCEPT ![p] = @ + 1]
    /\ UNCHANGED <<volumeLocks, deviceInUseErrors, stagingMounted, targetMounted, config,
                   req, res, eff, obs, retryOf, now>>

StageReserve(p) ==
    /\ pc[p] = "fm_reserve"
    /\ LET how == formatAndMount_Reserve(formatAndMountSemaphore, now - waitSince[p])
       IN  /\ how # "wait"
           /\ holdsSlot' = [holdsSlot EXCEPT ![p] = (how = "reserved")]
           /\ formatAndMountSemaphore' =
                  IF how = "reserved" THEN formatAndMountSemaphore + 1
                  ELSE formatAndMountSemaphore
    /\ pc' = [pc EXCEPT ![p] = "fm_run"]
    /\ waitSince' = [waitSince EXCEPT ![p] = 0]
    /\ attempt' = [attempt EXCEPT ![p] = @ + 1]
    /\ UNCHANGED <<volumeLocks, deviceInUseErrors, stagingMounted, targetMounted, config,
                   req, res, eff, obs, retryOf, now>>

\* Fault variant: a call that fails after its format+mount unmounts the
\* staging path before it returns.
StageMount_UnmountsOnFailure(p) ==
    /\ pc[p] = "fm_run"
    /\ \E out \in StageMountOutcomes(req[p], attempt[p]) :
         LET r == req[p]
             fmOK == out.fmOK
             o == out.then
         IN  /\ eff' = [eff EXCEPT ![p] = @ \o <<"formatAndMount">> \o o.eff]
             /\ stagingMounted' = [stagingMounted EXCEPT ![r.vol] =
                                       @ \/ (fmOK /\ ~(o.to = "done" /\ o.code # "OK"))]
             /\ formatAndMountSemaphore' =
                    formatAndMount_Release(formatAndMountSemaphore, holdsSlot[p])
             /\ holdsSlot' = [holdsSlot EXCEPT ![p] = FALSE]
             /\ IF o.to = "done"
                  THEN /\ Respond(p, o.code)
                       /\ volumeLocks' = NodeStageVolume_Defer(volumeLocks, r.vol)
                       /\ UNCHANGED waitSince
                  ELSE /\ pc' = [pc EXCEPT ![p] = o.to]
                       /\ waitSince' = [waitSince EXCEPT ![p] = now]
                       /\ UNCHANGED <<res, volumeLocks>>
    /\ UNCHANGED <<deviceInUseErrors, targetMounted, config, req, obs, attempt, retryOf, now>>

\* The format+mount sequence completes, and the handler runs on to its return
\* or to its second attempt.
StageMount(p) ==
    /\ pc[p] = "fm_run"
    /\ \E out \in StageMountOutcomes(req[p], attempt[p]) :
         LET r == req[p]
             fmOK == out.fmOK
             o == out.then
         IN  /\ eff' = [eff EXCEPT ![p] = @ \o <<"formatAndMount">> \o o.eff]
             /\ stagingMounted' = [stagingMounted EXCEPT ![r.vol] = @ \/ fmOK]
             /\ formatAndMountSemaphore' =
                    formatAndMount_Release(formatAndMountSemaphore, holdsSlot[p])
             /\ holdsSlot' = [holdsSlot EXCEPT ![p] = FALSE]
             /\ IF o.to = "done"
                  THEN /\ Respond(p, o.code)
                       /\ volumeLocks' = NodeStageVolume_Defer(volumeLocks, r.vol)
                       /\ UNCHANGED waitSince
                  ELSE /\ pc' = [pc EXCEPT ![p] = o.to]
                       /\ waitSince' = [waitSince EXCEPT ![p] = now]
                       /\ UNCHANGED <<res, volumeLocks>>
    /\ UNCHANGED <<deviceInUseErrors, targetMounted, config, req, obs, attempt, retryOf, now>>

\* ================================================================ NodePublishVolume
NodePublishVolume_Entry(r, locks) ==
    IF r.defect = "missingField" THEN "InvalidArgument"
    ELSE IF ~TryAcquire(locks, r.vol) THEN "Aborted"
    ELSE "acquired"

NodePublishVolume_Defer(locks, v) == Release(locks, v)

\* Fault variant of the recovery: the target path is removed although it is
\* still a mount point after Unmount.
NodePublishVolume_MountFailed_RemovesMounted(left, statErr1, unmountOK, still, statErr2) ==
    LET probe1 == IsLikelyNotMountPoint(left, statErr1)
        probe2 == IsLikelyNotMountPoint(still, statErr2)
        e1 == <<"mount", "IsLikelyNotMountPoint">>
    IN  IF probe1.err THEN [code |-> "Internal", eff |-> e1, mounted |-> left]
        ELSE IF ~probe1.notMnt
          THEN IF ~unmountOK
                 THEN [code |-> "Internal", eff |-> e1 \o <<"unmount">>, mounted |-> left]
               ELSE IF probe2.err
                 THEN [code |-> "Internal",
                       eff |-> e1 \o <<"unmount", "IsLikelyNotMountPoint">>,
                       mounted |-> still]
               ELSE IF ~probe2.notMnt
                 THEN [code |-> "Internal",
                       eff |-> e1 \o <<"unmount", "IsLikelyNotMountPoint", "remove">>,
                       mounted |-> still]
               ELSE [code |-> "Internal",
                     eff |-> e1 \o <<"unmount", "IsLikelyNotMountPoint", "remove">>,
                     mounted |-> FALSE]
        ELSE [code |-> "Internal", eff |-> e1 \o <<"remove">>, mounted |-> FALSE]

\* The recovery after Mount answered an error.  left: the target is a mount
\* point although Mount failed; still: it is one after Unmount answered nil.
NodePublishVolume_MountFailed(left, statErr1, unmountOK, still, statErr2) ==
    LET probe1 == IsLikelyNotMountPoint(left, statErr1)
        probe2 == IsLikelyNotMountPoint(still, statErr2)
        e1 == <<"mount", "IsLikelyNotMountPoint">>
    IN  IF probe1.err THEN [code |-> "Internal", eff |-> e1, mounted |-> left]
        ELSE IF ~probe1.notMnt
          THEN IF ~unmountOK
                 THEN [code |-> "Internal", eff |-> e1 \o <<"unmount">>, mounted |-> left]
               ELSE IF probe2.err
                 THEN [code |-> "Internal",
                       eff |-> e1 \o <<"unmount", "IsLikelyNotMountPoint">>,
                       mounted |-> still]
               ELSE IF ~probe2.notMnt
                 THEN [code |-> "Internal",
                       eff |-> e1 \o <<"unmount", "IsLikelyNotMountPoint">>,
                       mounted |-> still]
               ELSE [code |-> "Internal",
                     eff |-> e1 \o <<"unmount", "IsLikelyNotMountPoint", "remove">>,
                     mounted |-> FALSE]
        ELSE [code |-> "Internal", eff |-> e1 \o <<"remove">>, mounted |-> FALSE]

\* The body under the lock.  env carries what the collaborators answer.
NodePublishVolume_Body(r, mounted, env) ==
    LET probe == IsLikelyNotMountPoint(mounted, env.statErr)
        pre == IF r.cap = "mount" THEN <<"mkdir">> ELSE <<"getDevicePath", "makeFile">>
        failed == NodePublishVolume_MountFailed(env.left, env.statErr1, env.unmountOK,
                                               env.still, env.statErr2)
    IN  IF r.defect = "badCapability"
          THEN [code |-> "InvalidArgument", eff |-> <<>>, mounted |-> mounted]
        ELSE IF isVolumePathMounted(probe)
          THEN [code |-> "OK", eff |-> <<>>, mounted |-> mounted]
        ELSE IF r.cap = "mount" /\ ~env.mkdirOK
          THEN [code |-> "Internal", eff |-> <<"mkdir">>, mounted |-> mounted]
        ELSE IF r.cap = "block" /\ ~env.devOK
          THEN [code |-> "Internal", eff |-> <<"getDevicePath">>, mounted |-> mounted]
        ELSE IF r.cap = "block" /\ ~env.fileOK
          THEN [code |-> "Internal", eff |-> <<"getDevicePath", "makeFile", "remove">>,
                mounted |-> mounted]
        ELSE IF env.mountOK
          THEN [code |-> "OK", eff |-> pre \o <<"mount">>, mounted |-> TRUE]
        ELSE [failed EXCEPT !.eff = pre \o @]

\* The answers the collaborators of NodePublishVolume can give.  A failed
\* Mount leaves a mount behind or not; Unmount that answered nil leaves the
\* mount in place only if there was one.
PublishEnvs(mounted) ==
    { e \in [statErr : StatErrs(mounted), mkdirOK : BOOLEAN, devOK : BOOLEAN,
             fileOK : BOOLEAN, mountOK : BOOLEAN, left : BOOLEAN, statErr1 : BOOLEAN,
             unmountOK : BOOLEAN, still : BOOLEAN, statErr2 : BOOLEAN] :
        /\ e.statErr1 => ~e.left
        /\ e.still => e.left
        /\ e.statErr2 => ~e.still }

PublishOutcomes(r, mounted) ==
    { NodePublishVolume_Body(r, mounted, env) : env \in PublishEnvs(mounted) }

PublishBegin(p, r) ==
    /\ Free(p) /\ r.op = "Publish"
    /\ Accept(p, r)
    /\ LET e == NodePublishVolume_Entry(r, volumeLocks)
       IN  IF e = "acquired"
             THEN /\ volumeLocks' = Acquire(volumeLocks, r.vol)
                  /\ pc' = [pc EXCEPT ![p] = "publish_locked"]
                  /\ res' = [res EXCEPT ![p] = "none"]
                  /\ retryOf' = [retryOf EXCEPT ![p] =
                                     publishedBy[r.vol] = r /\ targetMounted[r.vol]]
             ELSE /\ Respond(p, e)
                  /\ retryOf' = [retryOf EXCEPT ![p] = FALSE]
                  /\ UNCHANGED volumeLocks
    /\ UNCHANGED <<deviceInUseErrors, formatAndMountSemaphore, stagingMounted, targetMounted,
                   config, holdsSlot, waitSince, now>>

PublishBody(p) ==
    /\ pc[p] = "publish_locked"
    /\ \E o \in PublishOutcomes(req[p], targetMounted[req[p].vol]) :
         LET r == req[p]
         IN  /\ eff' = [eff EXCEPT ![p] = @ \o o.eff]
             /\ targetMounted' = [targetMounted EXCEPT ![r.vol] = o.mounted]
             /\ Respond(p, o.code)
             /\ volumeLocks' = NodePublishVolume_Defer(volumeLocks, r.vol)
    /\ UNCHANGED <<deviceInUseErrors, formatAndMountSemaphore, stagingMounted, config,
                   req, obs, holdsSlot, waitSince, attempt, retryOf, now>>

\* ================================================================ NodeUnpublishVolume
NodeUnpublishVolume_Entry(r, locks) ==
    IF r.defect = "missingField" THEN "InvalidArgument"
    ELSE IF ~TryAcquire(locks, r.vol) THEN "Aborted"
    ELSE "acquired"

NodeUnpublishVolume_Defer(locks, v) == Release(locks, v)

NodeUnpublishVolume_Body(mounted, cleanupOK) ==
    IF ~cleanupOK
      THEN [code |-> "Internal", eff |-> <<"unmount">>, mounted |-> mounted]
      ELSE [code |-> "OK", eff |-> <<"unmount">>, mounted |-> FALSE]

\* Fault variant of the Unpublish entry: the deferred release is registered
\* before the acquisition is attempted, so a contended call releases the
\* holder's lock on its way out.
UnpublishBegin_DeferFirst(p, r) ==
    /\ Free(p) /\ r.op = "Unpublish"
    /\ Accept(p, r)
    /\ LET e == NodeUnpublishVolume_Entry(r, volumeLocks)
       IN  IF e = "acquired"
             THEN /\ volumeLocks' = Acquire(volumeLocks, r.vol)
                  /\ pc' = [pc EXCEPT ![p] = "unpublish_locked"]
                  /\ res' = [res EXCEPT ![p] = "none"]
             ELSE /\ Respond(p, e)
                  /\ volumeLocks' = IF e = "Aborted" THEN Release(volumeLocks, r.vol)
                                    ELSE volumeLocks
    /\ retryOf' = [retryOf EXCEPT ![p] = FALSE]
    /\ UNCHANGED <<deviceInUseErrors, formatAndMountSemaphore, stagingMounted, targetMounted,
                   config, holdsSlot, waitSince, now>>

UnpublishBegin(p, r) ==
    /\ Free(p) /\ r.op = "Unpublish"
    /\ Accept(p, r)
    /\ LET e == NodeUnpublishVolume_Entry(r, volumeLocks)
       IN  IF e = "acquired"
             THEN /\ volumeLocks' = Acquire(volumeLocks, r.vol)
                  /\ pc' = [pc EXCEPT ![p] = "unpublish_locked"]
                  /\ res' = [res EXCEPT ![p] = "none"]
             ELSE /\ Respond(p, e)
                  /\ UNCHANGED volumeLocks
    /\ retryOf' = [retryOf EXCEPT ![p] = FALSE]
    /\ UNCHANGED <<deviceInUseErrors, formatAndMountSemaphore, stagingMounted, targetMounted,
                   config, holdsSlot, waitSince, now>>

UnpublishBody(p) ==
    /\ pc[p] = "unpublish_locked"
    /\ \E cleanupOK \in BOOLEAN :
         LET r == req[p]
             o == NodeUnpublishVolume_Body(targetMounted[r.vol], cleanupOK)
         IN  /\ eff' = [eff EXCEPT ![p] = @ \o o.eff]
             /\ targetMounted' = [targetMounted EXCEPT ![r.vol] = o.mounted]
             /\ Respond(p, o.code)
             /\ volumeLocks' = NodeUnpublishVolume_Defer(volumeLocks, r.vol)
    /\ UNCHANGED <<deviceInUseErrors, formatAndMountSemaphore, stagingMounted, config,
                   req, obs, holdsSlot, waitSince, attempt, retryOf, now>>

\* ================================================================ NodeUnstageVolume
NodeUnstageVolume_Entry(r, locks) ==
    IF r.defect = "missingField" THEN "InvalidArgument"
    ELSE IF ~TryAcquire(locks, r.vol) THEN "Aborted"
    ELSE "acquired"

\* Fault variant of the Unstage exit: no release is deferred.
NodeUnstageVolume_Defer_Missing(locks, v) == locks

NodeUnstageVolume_Defer(locks, v) == Release(locks, v)

\* ns.confirmDeviceUnused: use is what IsDeviceFilesystemInUse answered.
\* The ignoreableError values name the call that failed.
confirmDeviceUnused(devOK, linkOK, use) ==
    IF ~devOK THEN "ignoreable:getDevicePath"
    ELSE IF ~linkOK THEN "ignoreable:EvalSymlinks"
    ELSE IF use = "error" THEN "ignoreable:IsDeviceFilesystemInUse"
    ELSE IF use = "inUse" THEN "inUse"
    ELSE "nil"

\* errors.As(err, &ignoreableErr)
IsIgnoreable(verdict) ==
    verdict \in {"ignoreable:getDevicePath", "ignoreable:EvalSymlinks",
                 "ignoreable:IsDeviceFilesystemInUse"}

\* The block guarded by ns.enableDeviceInUseCheck: the record map it leaves
\* and whether it returns the in-use error.
\* Fault variants of the in-use step of NodeUnstageVolume.
\* Every in-use observation stamps the record anew.
NodeUnstageVolume_InUseCheck_Restamp(errs, v, t, verdict) ==
    IF verdict = "nil" THEN [errs |-> deleteDevice(errs, v), fail |-> FALSE]
    ELSE IF IsIgnoreable(verdict) THEN [errs |-> deleteDevice(errs, v), fail |-> FALSE]
    ELSE IF deviceErrorExpired(errs, v, t)
      THEN [errs |-> deleteDevice(errs, v), fail |-> FALSE]
    ELSE [errs |-> MapPut(errs, v, t), fail |-> TRUE]

\* The age of the record is never consulted.
NodeUnstageVolume_InUseCheck_NoGiveUp(errs, v, t, verdict) ==
    IF verdict = "nil" THEN [errs |-> deleteDevice(errs, v), fail |-> FALSE]
    ELSE IF IsIgnoreable(verdict) THEN [errs |-> deleteDevice(errs, v), fail |-> FALSE]
    ELSE [errs |-> markDeviceError(errs, v, t), fail |-> TRUE]

\* The record is deleted on give-up and on an ignoreable error only, not when
\* the device is found unused.
NodeUnstageVolume_InUseCheck_KeepUnused(errs, v, t, verdict) ==
    IF verdict = "nil" THEN [errs |-> errs, fail |-> FALSE]
    ELSE IF IsIgnoreable(verdict) THEN [errs |-> deleteDevice(errs, v), fail |-> FALSE]
    ELSE IF deviceErrorExpired(errs, v, t)
      THEN [errs |-> deleteDevice(errs, v), fail |-> FALSE]
    ELSE [errs |-> markDeviceError(errs, v, t), fail |-> TRUE]

\* The record is kept on give-up.
NodeUnstageVolume_InUseCheck_KeepExpired(errs, v, t, verdict) ==
    IF verdict = "nil" THEN [errs |-> deleteDevice(errs, v), fail |-> FALSE]
    ELSE IF IsIgnoreable(verdict) THEN [errs |-> deleteDevice(errs, v), fail |-> FALSE]
    ELSE IF deviceErrorExpired(errs, v, t) THEN [errs |-> errs, fail |-> FALSE]
    ELSE [errs |-> markDeviceError(errs, v, t), fail |-> TRUE]

\* The record is kept on an ignoreable error.
NodeUnstageVolume_InUseCheck_KeepIgnored(errs, v, t, verdict) ==
    IF verdict = "nil" THEN [errs |-> deleteDevice(errs, v), fail |-> FALSE]
    ELSE IF IsIgnoreable(verdict) THEN [errs |-> errs, fail |-> FALSE]
    ELSE IF deviceErrorExpired(errs, v, t)
      THEN [errs |-> deleteDevice(errs, v), fail |-> FALSE]
    ELSE [errs |-> markDeviceError(errs, v, t), fail |-> TRUE]

\* The give-up comes one tick late: a record as old as the timeout still
\* fails the call.
NodeUnstageVolume_InUseCheck_LateGiveUp(errs, v, t, verdict) ==
    IF verdict = "nil" THEN [errs |-> deleteDevice(errs, v), fail |-> FALSE]
    ELSE IF IsIgnoreable(verdict) THEN [errs |-> deleteDevice(errs, v), fail |-> FALSE]
    ELSE IF deviceErrorExpired(errs, v, t - 1)
      THEN [errs |-> deleteDevice(errs, v), fail |-> FALSE]
    ELSE [errs |-> markDeviceError(errs, v, t), fail |-> TRUE]

NodeUnstageVolume_InUseCheck(errs, v, t, verdict) ==
    IF verdict = "nil" THEN [errs |-> deleteDevice(errs, v), fail |-> FALSE]
    ELSE IF IsIgnoreable(verdict) THEN [errs |-> deleteDevice(errs, v), fail |-> FALSE]
    ELSE IF deviceErrorExpired(errs, v, t)
      THEN [errs |-> deleteDevice(errs, v), fail |-> FALSE]
    ELSE [errs |-> markDeviceError(errs, v, t), fail |-> TRUE]

\* Fault variant of the body: the cache is torn down although the in-use check
\* failed the call.
NodeUnstageVolume_Body_TearDownAnyway(r, check, cacheOn, errs, t, env) ==
    LET verdict == confirmDeviceUnused(env.devOK, env.linkOK, env.use)
        inUse == NodeUnstageVolume_InUseCheck(errs, r.vol, t, verdict)
        e1 == <<"unmount">>
        e2 == e1 \o (IF check THEN <<"confirmDeviceUnused">> ELSE <<>>)
        e3 == e2 \o (IF cacheOn THEN <<"cleanupCache">> ELSE <<>>)
    IN  IF ~env.unmountOK
          THEN [code |-> "Internal", eff |-> e1, errs |-> errs, unmounted |-> FALSE,
                obs |-> "none"]
        ELSE IF check /\ inUse.fail
          THEN [code |-> "Internal", eff |-> e3, errs |-> inUse.errs, unmounted |-> TRUE,
                obs |-> verdict]
        ELSE LET errs2 == IF check THEN inUse.errs ELSE errs
                 seen == IF check THEN verdict ELSE "none"
             IN  IF cacheOn /\ ~env.cleanupOK
                   THEN [code |-> "DataLoss", eff |-> e3,
                         errs |-> errs2, unmounted |-> TRUE, obs |-> seen]
                   ELSE [code |-> "OK", eff |-> e3,
                         errs |-> errs2, unmounted |-> TRUE, obs |-> seen]

\* Fault variant of the body: the record is cleared only after the cache was
\* torn down, so a failed tear-down leaves it.
NodeUnstageVolume_Body_ClearsAfterTearDown(r, check, cacheOn, errs, t, env) ==
    LET verdict == confirmDeviceUnused(env.devOK, env.linkOK, env.use)
        inUse == NodeUnstageVolume_InUseCheck(errs, r.vol, t, verdict)
        e1 == <<"unmount">>
        e2 == e1 \o (IF check THEN <<"confirmDeviceUnused">> ELSE <<>>)
    IN  IF ~env.unmountOK
          THEN [code |-> "Internal", eff |-> e1, errs |-> errs, unmounted |-> FALSE,
                obs |-> "none"]
        ELSE IF check /\ inUse.fail
          THEN [code |-> "Internal", eff |-> e2, errs |-> inUse.errs, unmounted |-> TRUE,
                obs |-> verdict]
        ELSE LET errs2 == IF check THEN inUse.errs ELSE errs
                 seen == IF check THEN verdict ELSE "none"
             IN  IF cacheOn /\ ~env.cleanupOK
                   THEN [code |-> "DataLoss", eff |-> e2 \o <<"cleanupCache">>,
                         errs |-> errs, unmounted |-> TRUE, obs |-> seen]
                   ELSE [code |-> "OK",
                         eff |-> e2 \o (IF cacheOn THEN <<"cleanupCache">> ELSE <<>>),
                         errs |-> errs2, unmounted |-> TRUE, obs |-> seen]

\* The body under the lock: unmount, in-use check, cache tear-down.
NodeUnstageVolume_Body(r, check, cacheOn, errs, t, env) ==
    LET verdict == confirmDeviceUnused(env.devOK, env.linkOK, env.use)
        inUse == NodeUnstageVolume_InUseCheck(errs, r.vol, t, verdict)
        e1 == <<"unmount">>
        e2 == e1 \o (IF check THEN <<"confirmDeviceUnused">> ELSE <<>>)
    IN  IF ~env.unmountOK
          THEN [code |-> "Internal", eff |-> e1, errs |-> errs, unmounted |-> FALSE,
                obs |-> "none"]
        ELSE IF check /\ inUse.fail
          THEN [code |-> "Internal", eff |-> e2, errs |-> inUse.errs, unmounted |-> TRUE,
                obs |-> verdict]
        ELSE LET errs2 == IF check THEN inUse.errs ELSE errs
                 seen == IF check THEN verdict ELSE "none"
             IN  IF cacheOn /\ ~env.cleanupOK
                   THEN [code |-> "DataLoss", eff |-> e2 \o <<"cleanupCache">>,
                         errs |-> errs2, unmounted |-> TRUE, obs |-> seen]
                   ELSE [code |-> "OK",
                         eff |-> e2 \o (IF cacheOn THEN <<"cleanupCache">> ELSE <<>>),
                         errs |-> errs2, unmounted |-> TRUE, obs |-> seen]

UnstageEnvs ==
    [unmountOK : BOOLEAN, devOK : BOOLEAN, linkOK : BOOLEAN,
     use : {"error", "inUse", "unused"}, cleanupOK : BOOLEAN]

UnstageOutcomes(r, check, cacheOn, errs, t) ==
    { NodeUnstageVolume_Body(r, check, cacheOn, errs, t, env) : env \in UnstageEnvs }

UnstageBegin(p, r) ==
    /\ Free(p) /\ r.op = "Unstage"
    /\ Accept(p, r)
    /\ LET e == NodeUnstageVolume_Entry(r, volumeLocks)
       IN  IF e = "acquired"
             THEN /\ volumeLocks' = Acquire(volumeLocks, r.vol)
                  /\ pc' = [pc EXCEPT ![p] = "unstage_locked"]
                  /\ res' = [res EXCEPT ![p] = "none"]
             ELSE /\ Respond(p, e)
                  /\ UNCHANGED volumeLocks
    /\ retryOf' = [retryOf EXCEPT ![p] = FALSE]
    /\ UNCHANGED <<deviceInUseErrors, formatAndMountSemaphore, stagingMounted, targetMounted,
                   config, holdsSlot, waitSince, now>>

Min(a, b) == IF a < b THEN a ELSE b

UnstageBody(p) ==
    /\ pc[p] = "unstage_locked"
    /\ \E o \in UnstageOutcomes(req[p], enableDeviceInUseCheck,
                                  EnableDataCache /\ DataCacheEnabledNodePool,
                                  deviceInUseErrors, now) :
         LET r == req[p]
         IN  /\ eff' = [eff EXCEPT ![p] = @ \o o.eff]
             /\ obs' = [obs EXCEPT ![p] = o.obs]
             /\ deviceInUseErrors' = o.errs
             /\ stagingMounted' = [stagingMounted EXCEPT ![r.vol] = @ /\ ~o.unmounted]
             /\ Respond(p, o.code)
             /\ volumeLocks' = NodeUnstageVolume_Defer(volumeLocks, r.vol)
    /\ UNCHANGED <<formatAndMountSemaphore, targetMounted, config, req, holdsSlot,
                   waitSince, attempt, retryOf, now>>

\* ================================================================ history
\* The history variables observe the calls; they are no state of the server.
\* stagedBy / publishedBy: the request of the latest Stage / Publish call of
\* the volume that succeeded, until the path is unmounted again.
\* inUseFailures: n, how many Unstage calls of the volume in a row the in-use
\* check has failed, counted up to MaxFailures; open, whether the latest check
\* of the volume is one of them; endedBy, what the check found in the call that
\* ended them, while that call is the latest check of the volume.
Returned(p) == pc[p] # "done" /\ pc'[p] = "done"

ObserveStage(p) ==
    LET v == req'[p].vol
    IN  /\ stagedBy' = IF Returned(p) /\ res'[p] = "OK"
                         THEN [stagedBy EXCEPT ![v] = req'[p]]
                         ELSE stagedBy
        /\ UNCHANGED <<publishedBy, inUseFailures, retryWindow, postMountFailure>>

ObservePublish(p) ==
    LET v == req'[p].vol
    IN  /\ publishedBy' = IF Returned(p) /\ res'[p] = "OK"
                            THEN [publishedBy EXCEPT ![v] = req'[p]]
                            ELSE publishedBy
        /\ UNCHANGED <<stagedBy, inUseFailures, retryWindow, postMountFailure>>

ObserveUnpublish(p) ==
    LET v == req'[p].vol
    IN  /\ publishedBy' = IF Returned(p) /\ ~targetMounted'[v]
                            THEN [publishedBy EXCEPT ![v] = NoReq]
                            ELSE publishedBy
        /\ UNCHANGED <<stagedBy, inUseFailures, retryWindow, postMountFailure>>

ObserveUnstage_Streak(p) ==
    LET v == req'[p].vol
    IN  /\ stagedBy' = IF "unmount" \in {eff'[p][i] : i \in DOMAIN eff'[p]}
                            /\ Returned(p) /\ ~stagingMounted'[v]
                         THEN [stagedBy EXCEPT ![v] = NoReq]
                         ELSE stagedBy
        /\ inUseFailures' =
               IF ~Returned(p) \/ obs'[p] = "none" THEN inUseFailures
               ELSE IF obs'[p] = "inUse" /\ res'[p] = "Internal"
                 THEN [inUseFailures EXCEPT ![v] =
                          [n |-> IF @.open THEN Min(@.n + 1, MaxFailures) ELSE 1,
                           open |-> TRUE, endedBy |-> "none"]]
               ELSE [inUseFailures EXCEPT ![v] =
                          [n |-> @.n, open |-> FALSE,
                           endedBy |-> IF @.open THEN obs'[p] ELSE "none"]]
        /\ UNCHANGED publishedBy

ObserveUnstage(p) == ObserveUnstage_Streak(p) /\ UNCHANGED <<retryWindow, postMountFailure>>

\* retryWindow: first, the time at which an Unstage call of the volume saw the
\* device in use for the first time since the last Unstage of the volume that
\* succeeded (the caller retries until Unstage succeeds); issued, the time at
\* which the Unstage call of the volume now in its body was issued.  Each is
\* the empty set or holds one time.
ObserveRetry(p) ==
    LET v == req'[p].vol
    IN  /\ ObserveUnstage_Streak(p)
        /\ UNCHANGED postMountFailure
        /\ retryWindow' =
               IF pc'[p] = "unstage_locked"
                 THEN [retryWindow EXCEPT ![v].issued = {now}]
               ELSE IF pc[p] = "unstage_locked"
                 THEN [retryWindow EXCEPT ![v] =
                          [issued |-> {},
                           first |-> IF res'[p] = "OK" THEN {}
                                     ELSE IF obs'[p] = "inUse" /\ @.first = {} THEN {now}
                                     ELSE @.first]]
               ELSE retryWindow

\* postMountFailure: the request of the Stage call whose format+mount made
\* the staging path of the volume a mount point and which then returned a
\* failure, until the path is unmounted again.
ObserveRestage(p) ==
    LET v == req'[p].vol
    IN  /\ stagedBy' = IF Returned(p) /\ res'[p] = "OK"
                         THEN [stagedBy EXCEPT ![v] = req'[p]]
                         ELSE stagedBy
        /\ postMountFailure' =
               IF stagingMounted'[v] /\ ~stagingMounted[v] /\ Returned(p) /\ res'[p] # "OK"
                 THEN [postMountFailure EXCEPT ![v] = req'[p]]
                 ELSE postMountFailure
        /\ UNCHANGED <<publishedBy, inUseFailures, retryWindow>>

ObserveUnmount(p) ==
    LET v == req'[p].vol
    IN  /\ ObserveUnstage_Streak(p)
        /\ postMountFailure' =
               IF Returned(p) /\ ~stagingMounted'[v]
                 THEN [postMountFailure EXCEPT ![v] = NoReq]
                 ELSE postMountFailure
        /\ UNCHANGED retryWindow

Unobserved == UNCHANGED history

\* ================================================================ the clock
Tick ==
    /\ now < MaxTime
    /\ now' = now + 1
    /\ UNCHANGED <<shared, config, local>>

\* ================================================================ specification
\* A freshly constructed node server: no lock held, no in-use record, no slot
\* reserved, nothing mounted.
InitServer ==
    /\ volumeLocks = {}
    /\ deviceInUseErrors = << >>
    /\ formatAndMountSemaphore = 0
    /\ now = 0
    /\ stagingMounted = [v \in Volumes |-> FALSE]
    /\ targetMounted = [v \in Volumes |-> FALSE]
    /\ pc = [p \in Procs |-> "idle"]
    /\ req = [p \in Procs |-> NoReq]
    /\ res = [p \in Procs |-> "none"]
    /\ eff = [p \in Procs |-> <<>>]
    /\ obs = [p \in Procs |-> "none"]
    /\ holdsSlot = [p \in Procs |-> FALSE]
    /\ waitSince = [p \in Procs |-> 0]
    /\ attempt = [p \in Procs |-> 0]
    /\ retryOf = [p \in Procs |-> FALSE]
    /\ stagedBy = [v \in Volumes |-> NoReq]
    /\ publishedBy = [v \in Volumes |-> NoReq]
    /\ inUseFailures = [v \in Volumes |-> [n |-> 0, open |-> FALSE, endedBy |-> "none"]]
    /\ retryWindow = [v \in Volumes |-> [first |-> {}, issued |-> {}]]
    /\ postMountFailure = [v \in Volumes |-> NoReq]

\* ---------------------------------------------------------------- concurrent calls
\* Spec: NumCalls call slots serve lifecycle requests for two volumes in any
\* interleaving.
LockRequests ==
    UNION { { Plain("Stage", v), Defective("Stage", v, "badCapability"),
              Plain("Publish", v), Plain("Unpublish", v), Plain("Unstage", v),
              Defective("Unstage", v, "missingField") } : v \in Volumes }

Init ==
    /\ InitServer
    /\ args = NoArgs /\ ret = NoRet
    /\ enableDeviceInUseCheck = TRUE
    /\ EnableDataCache = FALSE
    /\ DataCacheEnabledNodePool = FALSE

Next ==
    \/ \E p \in Procs, r \in LockRequests : StageBegin(p, r) /\ Unobserved /\ UNCHANGED applied
    \/ \E p \in Procs : StagePrepare(p) /\ Unobserved /\ UNCHANGED applied
    \/ \E p \in Procs : StageReserve(p) /\ Unobserved /\ UNCHANGED applied
    \/ \E p \in Procs : StageMount(p) /\ Unobserved /\ UNCHANGED applied
    \/ \E p \in Procs, r \in LockRequests : PublishBegin(p, r) /\ Unobserved /\ UNCHANGED applied
    \/ \E p \in Procs : PublishBody(p) /\ Unobserved /\ UNCHANGED applied
    \/ \E p \in Procs, r \in LockRequests : UnpublishBegin(p, r) /\ Unobserved /\ UNCHANGED applied
    \/ \E p \in Procs : UnpublishBody(p) /\ Unobserved /\ UNCHANGED applied
    \/ \E p \in Procs, r \in LockRequests : UnstageBegin(p, r) /\ Unobserved /\ UNCHANGED applied
    \/ \E p \in Procs : UnstageBody(p) /\ Unobserved /\ UNCHANGED applied

Spec == Init /\ [][Next]_vars

\* ---------------------------------------------------------------- the limiter
\* SpecLimiter: concurrent Stage and Unstage calls for two volumes while the
\* clock runs, so that calls wait for a format-and-mount slot and time out.
LimiterRequests ==
    UNION { { Plain("Stage", v), Plain("Unstage", v) } : v \in Volumes }

InitLimiter ==
    /\ InitServer
    /\ args = NoArgs /\ ret = NoRet
    /\ enableDeviceInUseCheck = FALSE
    /\ EnableDataCache = FALSE
    /\ DataCacheEnabledNodePool = FALSE

NextLimiter ==
    \/ \E p \in Procs, r \in LimiterRequests : StageBegin(p, r) /\ Unobserved /\ UNCHANGED applied
    \/ \E p \in Procs : StagePrepare(p) /\ Unobserved /\ UNCHANGED applied
    \/ \E p \in Procs : StageReserve(p) /\ Unobserved /\ UNCHANGED applied
    \/ \E p \in Procs : StageMount(p) /\ Unobserved /\ UNCHANGED applied
    \/ \E p \in Procs, r \in LimiterRequests : UnstageBegin(p, r) /\ Unobserved /\ UNCHANGED applied
    \/ \E p \in Procs : UnstageBody(p) /\ Unobserved /\ UNCHANGED applied
    \/ Tick /\ Unobserved /\ UNCHANGED applied

SpecLimiter == InitLimiter /\ [][NextLimiter]_vars

\* SpecLimiterFair: the same, where the clock keeps running and a call that
\* may go on to the format+mount sequence does so.  Nothing makes a
\* format+mount sequence finish.
SpecLimiterFair ==
    /\ SpecLimiter
    /\ WF_vars(Tick /\ Unobserved /\ UNCHANGED applied)
    /\ \A p \in Procs : WF_vars(StageReserve(p) /\ Unobserved /\ UNCHANGED applied)

\* ---------------------------------------------------------------- arriving during the wait
\* SpecArrivals: one call slot more than in Spec.  The first slot stages
\* vol-b, the second stages vol-a, and every other slot issues the four
\* lifecycle calls for vol-a, while the clock runs: a call for vol-a can
\* arrive while the Stage call of vol-a waits for the slot that the Stage call
\* of vol-b holds.
Slots == 1..(NumCalls + 1)

ArrivalRequests(p) ==
    IF p = 1 THEN { Plain("Stage", "vol-b") }
    ELSE IF p = 2 THEN { Plain("Stage", "vol-a") }
    ELSE { Plain(op, "vol-a") : op \in {"Stage", "Publish", "Unpublish", "Unstage"} }

InitArrivals ==
    /\ volumeLocks = {}
    /\ deviceInUseErrors = << >>
    /\ formatAndMountSemaphore = 0
    /\ now = 0
    /\ stagingMounted = [v \in Volumes |-> FALSE]
    /\ targetMounted = [v \in Volumes |-> FALSE]
    /\ pc = [p \in Slots |-> "idle"]
    /\ req = [p \in Slots |-> NoReq]
    /\ res = [p \in Slots |-> "none"]
    /\ eff = [p \in Slots |-> <<>>]
    /\ obs = [p \in Slots |-> "none"]
    /\ holdsSlot = [p \in Slots |-> FALSE]
    /\ waitSince = [p \in Slots |-> 0]
    /\ attempt = [p \in Slots |-> 0]
    /\ retryOf = [p \in Slots |-> FALSE]
    /\ stagedBy = [v \in Volumes |-> NoReq]
    /\ publishedBy = [v \in Volumes |-> NoReq]
    /\ inUseFailures = [v \in Volumes |-> [n |-> 0, open |-> FALSE, endedBy |-> "none"]]
    /\ retryWindow = [v \in Volumes |-> [first |-> {}, issued |-> {}]]
    /\ postMountFailure = [v \in Volumes |-> NoReq]
    /\ args = NoArgs /\ ret = NoRet
    /\ enableDeviceInUseCheck = FALSE
    /\ EnableDataCache = FALSE
    /\ DataCacheEnabledNodePool = FALSE

NextArrivals ==
    \/ \E p \in Slots : \E r \in ArrivalRequests(p) : StageBegin(p, r) /\ Unobserved /\ UNCHANGED applied
    \/ \E p \in Slots : StagePrepare(p) /\ Unobserved /\ UNCHANGED applied
    \/ \E p \in Slots : StageReserve(p) /\ Unobserved /\ UNCHANGED applied
    \/ \E p \in Slots : StageMount(p) /\ Unobserved /\ UNCHANGED applied
    \/ \E p \in Slots : \E r \in ArrivalRequests(p) : PublishBegin(p, r) /\ Unobserved /\ UNCHANGED applied
    \/ \E p \in Slots : PublishBody(p) /\ Unobserved /\ UNCHANGED applied
    \/ \E p \in Slots : \E r \in ArrivalRequests(p) : UnpublishBegin(p, r) /\ Unobserved /\ UNCHANGED applied
    \/ \E p \in Slots : UnpublishBody(p) /\ Unobserved /\ UNCHANGED applied
    \/ \E p \in Slots : \E r \in ArrivalRequests(p) : UnstageBegin(p, r) /\ Unobserved /\ UNCHANGED applied
    \/ \E p \in Slots : UnstageBody(p) /\ Unobserved /\ UNCHANGED applied
    \/ Tick /\ Unobserved /\ UNCHANGED applied

SpecArrivals == InitArrivals /\ [][NextArrivals]_vars

\* SpecArrivalsFair: the same, where the clock keeps running and a call that
\* may go on to the format+mount sequence does so.  Nothing makes a
\* format+mount sequence finish.
SpecArrivalsFair ==
    /\ SpecArrivals
    /\ WF_vars(Tick /\ Unobserved /\ UNCHANGED applied)
    /\ \A p \in Slots : WF_vars(StageReserve(p) /\ Unobserved /\ UNCHANGED applied)

\* ---------------------------------------------------------------- one call at a time
\* SpecSeq: a single caller issues one lifecycle call after the other for one
\* volume, with every kind of request and under every configuration of the
\* data cache and the in-use check.
Caller == {1}

SeqRequests ==
    UNION { { Plain("Stage", v),
              [Plain("Stage", v) EXCEPT !.ro = TRUE],
              [Plain("Stage", v) EXCEPT !.cap = "block"],
              [Plain("Stage", v) EXCEPT !.cap = "block", !.cache = "valid"],
              [Plain("Stage", v) EXCEPT !.cache = "valid"],
              [Plain("Stage", v) EXCEPT !.cache = "invalid"],
              [Plain("Stage", v) EXCEPT !.ra = "invalid"],
              [Plain("Stage", v) EXCEPT !.ra = "valid"],
              [Plain("Stage", v) EXCEPT !.fsType = fsTypeBtrfs, !.reclaim = TRUE],
              Defective("Stage", v, "missingField"),
              Defective("Stage", v, "badCapability"),
              Defective("Stage", v, "badVolumeID"),
              Plain("Publish", v),
              [Plain("Publish", v) EXCEPT !.cap = "block"],
              Defective("Publish", v, "missingField"),
              Defective("Publish", v, "badCapability"),
              Plain("Unpublish", v),
              Defective("Unpublish", v, "missingField"),
              Plain("Unstage", v),
              Defective("Unstage", v, "missingField") } : v \in {"vol-a"} }

InitSeq ==
    /\ InitServer
    /\ args = NoArgs /\ ret = NoRet
    /\ enableDeviceInUseCheck \in BOOLEAN
    /\ EnableDataCache \in BOOLEAN
    /\ DataCacheEnabledNodePool \in BOOLEAN

NextSeq ==
    \/ \E p \in Caller, r \in SeqRequests : StageBegin(p, r) /\ ObserveStage(p) /\ UNCHANGED applied
    \/ \E p \in Caller : StagePrepare(p) /\ ObserveStage(p) /\ UNCHANGED applied
    \/ \E p \in Caller : StageReserve(p) /\ ObserveStage(p) /\ UNCHANGED applied
    \/ \E p \in Caller : StageMount(p) /\ ObserveStage(p) /\ UNCHANGED applied
    \/ \E p \in Caller, r \in SeqRequests : PublishBegin(p, r) /\ ObservePublish(p) /\ UNCHANGED applied
    \/ \E p \in Caller : PublishBody(p) /\ ObservePublish(p) /\ UNCHANGED applied
    \/ \E p \in Caller, r \in SeqRequests : UnpublishBegin(p, r) /\ ObserveUnpublish(p) /\ UNCHANGED applied
    \/ \E p \in Caller : UnpublishBody(p) /\ ObserveUnpublish(p) /\ UNCHANGED applied
    \/ \E p \in Caller, r \in SeqRequests : UnstageBegin(p, r) /\ ObserveUnstage(p) /\ UNCHANGED applied
    \/ \E p \in Caller : UnstageBody(p) /\ ObserveUnstage(p) /\ UNCHANGED applied

SpecSeq == InitSeq /\ [][NextSeq]_vars

\* ---------------------------------------------------------------- the in-use tracker
\* SpecTracker: a single caller retries Unstage for two volumes, and stages
\* one of them again, while the clock runs.
TrackerRequests ==
    { Plain("Unstage", v) : v \in Volumes } \cup { Plain("Stage", "vol-a") }

InitTracker ==
    /\ InitServer
    /\ args = NoArgs /\ ret = NoRet
    /\ enableDeviceInUseCheck = TRUE
    /\ EnableDataCache \in BOOLEAN
    /\ DataCacheEnabledNodePool = EnableDataCache

NextTracker ==
    \/ \E p \in Caller, r \in TrackerRequests : StageBegin(p, r) /\ Unobserved /\ UNCHANGED applied
    \/ \E p \in Caller : StagePrepare(p) /\ Unobserved /\ UNCHANGED applied
    \/ \E p \in Caller : StageReserve(p) /\ Unobserved /\ UNCHANGED applied
    \/ \E p \in Caller : StageMount(p) /\ Unobserved /\ UNCHANGED applied
    \/ \E p \in Caller, r \in TrackerRequests : UnstageBegin(p, r) /\ ObserveUnstage(p) /\ UNCHANGED applied
    \/ \E p \in Caller : UnstageBody(p) /\ ObserveUnstage(p) /\ UNCHANGED applied
    \/ Tick /\ Unobserved /\ UNCHANGED applied

SpecTracker == InitTracker /\ [][NextTracker]_vars

\* ---------------------------------------------------------------- the retrying caller
\* SpecRetry: a single caller issues Unstage for two volumes again and again
\* while the clock runs; the in-use check is enabled, the data cache is
\* enabled or not.
RetryRequests == { Plain("Unstage", v) : v \in Volumes }

InitRetry ==
    /\ InitServer
    /\ args = NoArgs /\ ret = NoRet
    /\ enableDeviceInUseCheck = TRUE
    /\ EnableDataCache \in BOOLEAN
    /\ DataCacheEnabledNodePool = EnableDataCache

NextRetry ==
    \/ \E p \in Caller, r \in RetryRequests : UnstageBegin(p, r) /\ ObserveRetry(p) /\ UNCHANGED applied
    \/ \E p \in Caller : UnstageBody(p) /\ ObserveRetry(p) /\ UNCHANGED applied
    \/ Tick /\ Unobserved /\ UNCHANGED applied

SpecRetry == InitRetry /\ [][NextRetry]_vars

\* ---------------------------------------------------------------- staging again
\* SpecRestage: a single caller stages one volume, with requests that make
\* NodeStageVolume run its steps after the mount, and unstages it, in any
\* order, with the data cache enabled or not.
RestageRequests ==
    { Plain("Stage", "vol-a"),
      [Plain("Stage", "vol-a") EXCEPT !.ro = TRUE],
      [Plain("Stage", "vol-a") EXCEPT !.ro = TRUE, !.ra = "valid"],
      [Plain("Stage", "vol-a") EXCEPT !.ra = "valid"],
      [Plain("Stage", "vol-a") EXCEPT !.cache = "valid"],
      [Plain("Stage", "vol-a") EXCEPT !.fsType = fsTypeBtrfs, !.reclaim = TRUE],
      Plain("Unstage", "vol-a") }

InitRestage ==
    /\ InitServer
    /\ args = NoArgs /\ ret = NoRet
    /\ enableDeviceInUseCheck = FALSE
    /\ EnableDataCache \in BOOLEAN
    /\ DataCacheEnabledNodePool = EnableDataCache

NextRestage ==
    \/ \E p \in Caller, r \in RestageRequests : StageBegin(p, r) /\ ObserveRestage(p) /\ UNCHANGED applied
    \/ \E p \in Caller : StagePrepare(p) /\ ObserveRestage(p) /\ UNCHANGED applied
    \/ \E p \in Caller : StageReserve(p) /\ ObserveRestage(p) /\ UNCHANGED applied
    \/ \E p \in Caller : StageMount(p) /\ ObserveRestage(p) /\ UNCHANGED applied
    \/ \E p \in Caller, r \in RestageRequests : UnstageBegin(p, r) /\ ObserveUnmount(p) /\ UNCHANGED applied
    \/ \E p \in Caller : UnstageBody(p) /\ ObserveUnmount(p) /\ UNCHANGED applied

SpecRestage == InitRestage /\ [][NextRestage]_vars

\* ================================================================ mount options
\* A mount flag is a token of the capability's MountFlags.  It is kept in
\* parts, key[=val], val a string of characters, so that the three patterns
\* can be matched against it.
MaxFlags == 2

FlagKeys ==
    {"noatime", "read_ahead_kb",
     "btrfs-allocation-data-bg_reclaim_threshold",
     "btrfs-allocation-metadata-bg_reclaim_threshold"}

FlagVals ==
    { << >>, <<"7">>, <<"7", "0">>, <<"1", "0", "0">>, <<"-", "7">>, <<"k">> }

Flags ==
    { f \in [key : FlagKeys, eq : BOOLEAN, val : FlagVals] : ~f.eq => f.val = << >> }

FlagLists == UNION { [1..n -> Flags] : n \in 0..MaxFlags }

\* An option the handlers add themselves.
Option(name) == [key |-> name, eq |-> FALSE, val |-> << >>]

Digits == {"0", "1", "2", "3", "4", "5", "6", "7", "8", "9"}

\* "^read_ahead_kb=(.+)$"
readAheadKBMountFlagRegex(f) ==
    f.key = "read_ahead_kb" /\ f.eq /\ Len(f.val) >= 1

\* "^btrfs-allocation-data-bg_reclaim_threshold=(\\d{1,2})$"
btrfsReclaimDataRegex(f) ==
    /\ f.key = "btrfs-allocation-data-bg_reclaim_threshold" /\ f.eq
    /\ Len(f.val) \in {1, 2} /\ \A i \in DOMAIN f.val : f.val[i] \in Digits

\* "^btrfs-allocation-metadata-bg_reclaim_threshold=(\\d{1,2})$"
btrfsReclaimMetadataRegex(f) ==
    /\ f.key = "btrfs-allocation-metadata-bg_reclaim_threshold" /\ f.eq
    /\ Len(f.val) \in {1, 2} /\ \A i \in DOMAIN f.val : f.val[i] \in Digits

\* collectMountOptions: the flags without those that match one of the three
\* patterns.
IsMountOption(f) ==
    ~(readAheadKBMountFlagRegex(f) \/ btrfsReclaimDataRegex(f) \/ btrfsReclaimMetadataRegex(f))

collectMountOptions(fsType, mntFlags) == SelectSeq(mntFlags, IsMountOption)

\* strconv.ParseInt(text, 10, bits), for numbers far from the limit of bits: an optional sign and one or more digits.
DigitValue(c) ==
    CASE c = "0" -> 0 [] c = "1" -> 1 [] c = "2" -> 2 [] c = "3" -> 3 [] c = "4" -> 4
      [] c = "5" -> 5 [] c = "6" -> 6 [] c = "7" -> 7 [] c = "8" -> 8 [] c = "9" -> 9
      [] OTHER -> -1

RECURSIVE Decimal(_)
Decimal(t) ==
    IF t = << >> THEN 0 ELSE 10 * Decimal(SubSeq(t, 1, Len(t) - 1)) + DigitValue(t[Len(t)])

ParseInt(t) ==
    LET signed == t # << >> /\ t[1] \in {"+", "-"}
        digits == IF signed THEN Tail(t) ELSE t
    IN  IF digits = << >> \/ \E i \in DOMAIN digits : DigitValue(digits[i]) < 0
          THEN [val |-> 0, err |-> TRUE]
          ELSE [val |-> IF signed /\ t[1] = "-" THEN 0 - Decimal(digits) ELSE Decimal(digits),
                err |-> FALSE]

\* extractReadAheadKBMountFlag: the first flag that matches the pattern
\* decides; its value must parse and must not be negative.
extractReadAheadKBMountFlag(mountFlags) ==
    LET hits == { i \in DOMAIN mountFlags : readAheadKBMountFlagRegex(mountFlags[i]) }
    IN  IF hits = {} THEN [found |-> FALSE, err |-> FALSE]
        ELSE LET first == CHOOSE i \in hits : \A j \in hits : i <= j
                 readAheadKBInt == ParseInt(mountFlags[first].val)
             IN  IF readAheadKBInt.err \/ readAheadKBInt.val < 0
                   THEN [found |-> FALSE, err |-> TRUE]
                   ELSE [found |-> TRUE, err |-> FALSE]

\* extractBtrfsReclaimFlags: is there a flag that sets a reclaim threshold.
extractBtrfsReclaimFlags(mountFlags) ==
    \E i \in DOMAIN mountFlags :
        btrfsReclaimDataRegex(mountFlags[i]) \/ btrfsReclaimMetadataRegex(mountFlags[i])

\* The request of the lifecycle model that a capability with these mount
\* flags stands for.
WithFlags(a) ==
    Request("Stage", "vol-a", "none", "mount", a.ro, a.fsType,
            IF extractReadAheadKBMountFlag(a.flags).err THEN "invalid"
            ELSE IF extractReadAheadKBMountFlag(a.flags).found THEN "valid" ELSE "none",
            "none", a.fsType = fsTypeBtrfs /\ extractBtrfsReclaimFlags(a.flags))

\* Fault variant: the raw flags go to formatAndMount.
NodeStageVolume_Options_Raw(a, n) ==
    a.flags \o (IF a.ro THEN <<Option("ro")>> ELSE << >>)
            \o (IF n = 2 THEN <<Option("noload")>> ELSE << >>)

\* The options NodeStageVolume hands to formatAndMount on its attempt n.
NodeStageVolume_Options(a, n) ==
    collectMountOptions(StageFsType(a), a.flags)
        \o (IF a.ro THEN <<Option("ro")>> ELSE << >>)
        \o (IF n = 2 THEN <<Option("noload")>> ELSE << >>)

\* The options NodePublishVolume hands to Mount, for a mount capability.
NodePublishVolume_Options(a) ==
    <<Option("bind")>> \o (IF a.ro THEN <<Option("ro")>> ELSE << >>)
        \o collectMountOptions(IF a.fsType # "" THEN a.fsType ELSE "ext4", a.flags)

\* The lifecycle state is left alone by what is applied outside it.
Aside == UNCHANGED <<shared, config, local, history, now>>

OptionCalls ==
    [fn : {"NodeStageVolume", "NodePublishVolume"},
     fsType : {"", defaultLinuxFsType, fsTypeExt3, fsTypeBtrfs}, ro : BOOLEAN, flags : FlagLists]

\* The result of a formatAndMount: the attempt, the options it was given,
\* its answer, what IsBlockDevice would answer for the device and what the
\* handler does next.
Attempt(n, options, out) ==
    [fn |-> "formatAndMount", n |-> n, options |-> options, fmOK |-> out.fmOK,
     stat |-> out.stat, then |-> out.then]

\* NodeStageVolume makes its first formatAndMount.
StageFirstMount ==
    /\ args.fn = "NodeStageVolume" /\ ret = NoRet
    /\ WithFlags(args).ra # "invalid"
    /\ \E out \in StageMountOutcomes(WithFlags(args), 1) :
          ret' = Attempt(1, NodeStageVolume_Options(args, 1), out)
    /\ UNCHANGED args /\ Aside

\* The first formatAndMount failed and the second is made.
StageSecondMount ==
    /\ args.fn = "NodeStageVolume" /\ ret.fn = "formatAndMount" /\ ret.n = 1
    /\ ret.then.to = "fm_reserve"
    /\ \E out \in StageMountOutcomes(WithFlags(args), 2) :
          ret' = Attempt(2, NodeStageVolume_Options(args, 2), out)
    /\ UNCHANGED args /\ Aside

\* NodePublishVolume reaches Mount.
PublishMount ==
    /\ args.fn = "NodePublishVolume" /\ ret = NoRet
    /\ ret' = [fn |-> "Mount", n |-> 1, options |-> NodePublishVolume_Options(args)]
    /\ UNCHANGED args /\ Aside

\* SpecOptions: the option lists that Stage and Publish calls with a mount
\* capability hand to the mount primitives, for every list of up to MaxFlags
\* flags.
InitOptions ==
    /\ InitServer
    /\ enableDeviceInUseCheck = FALSE
    /\ EnableDataCache = FALSE
    /\ DataCacheEnabledNodePool = FALSE
    /\ args \in OptionCalls
    /\ ret = NoRet

NextOptions ==
    \/ StageFirstMount
    \/ StageSecondMount
    \/ PublishMount

SpecOptions == InitOptions /\ [][NextOptions]_vars

\* ================================================================ NodeExpandVolume
\* NodeExpandVolume takes no volume lock.  Its request carries
\*   defect    "none", "noVolumeID", "badCapacity" (getRequestCapacity fails),
\*             "noVolumePath", "badVolumeID", "badCapability"
\*   reqBytes  what getRequestCapacity computes from the capacity range
\*   cap       "none" (no capability given), "mount" or "block"
\*   mode      the access mode: "rw", "ro", or "unknown", for which
\*             getReadOnlyFromCapability fails
MaxBytes == 3

ExpandCalls ==
    [fn : {"NodeExpandVolume"},
     defect : {"none", "noVolumeID", "badCapacity", "noVolumePath", "badVolumeID",
               "badCapability"},
     reqBytes : 0..MaxBytes, cap : {"none", "mount", "block"}, mode : {"rw", "ro", "unknown"}]

\* The response: code, CapacityBytes, the collaborators invoked and what
\* getBlockSizeBytes answered, if asked.
Expanded(code, bytes, e, size) ==
    [fn |-> "NodeExpandVolume", code |-> code, CapacityBytes |-> bytes, eff |-> e,
     diskSizeBytes |-> size]

\* Fault variant: a read-only capability is resized like a writable one.
NodeExpandVolume_Capability_ResizesReadOnly(a) ==
    IF a.cap = "none" THEN "resize"
    ELSE IF a.defect = "badCapability" THEN "InvalidArgument"
    ELSE IF a.cap = "block" THEN "noop"
    ELSE IF a.mode = "unknown" THEN "Internal"
    ELSE "resize"

\* The optional capability: validated, then block and read-only are no-ops.
NodeExpandVolume_Capability(a) ==
    IF a.cap = "none" THEN "resize"
    ELSE IF a.defect = "badCapability" THEN "InvalidArgument"
    ELSE IF a.cap = "block" THEN "noop"
    ELSE IF a.mode = "unknown" THEN "Internal"
    ELSE IF a.mode = "ro" THEN "noop"
    ELSE "resize"

\* Fault variant: any size other than the requested one is a failure.
NodeExpandVolume_Measured_Exact(reqBytes, diskSizeBytes, e) ==
    IF diskSizeBytes # reqBytes THEN Expanded("Internal", 0, e, diskSizeBytes)
    ELSE Expanded("OK", reqBytes, e, diskSizeBytes)

\* After the resize: the size of the device is compared with the request.
\* The error of getBlockSizeBytes is not looked at.
NodeExpandVolume_Measured(reqBytes, diskSizeBytes, e) ==
    IF diskSizeBytes < reqBytes THEN Expanded("Internal", 0, e, diskSizeBytes)
    ELSE Expanded("OK", reqBytes, e, diskSizeBytes)

NodeExpandVolume(a, devOK, resizeOK, diskSizeBytes) ==
    LET e1 == <<"getDevicePath">>
        how == NodeExpandVolume_Capability(a)
    IN  IF a.defect \in {"noVolumeID", "badCapacity", "noVolumePath", "badVolumeID"}
          THEN Expanded("InvalidArgument", 0, << >>, -1)
        ELSE IF ~devOK THEN Expanded("Internal", 0, e1, -1)
        ELSE IF how \in {"InvalidArgument", "Internal"} THEN Expanded(how, 0, e1, -1)
        ELSE IF how = "noop" THEN Expanded("OK", 0, e1, -1)
        ELSE IF ~resizeOK THEN Expanded("Internal", 0, e1 \o <<"Resize">>, -1)
        ELSE NodeExpandVolume_Measured(a.reqBytes, diskSizeBytes,
                                       e1 \o <<"Resize", "getBlockSizeBytes">>)

\* What getBlockSizeBytes can answer: a size, or -1 with an error.
DiskSizes == (-1)..(MaxBytes + 1)

ExpandVolume ==
    /\ args.fn = "NodeExpandVolume" /\ ret = NoRet
    /\ \E devOK \in BOOLEAN, resizeOK \in BOOLEAN, size \in DiskSizes :
          ret' = NodeExpandVolume(args, devOK, resizeOK, size)
    /\ UNCHANGED args /\ Aside

\* The caller reads the response and sends the next request.
ExpandNext ==
    /\ args.fn = "NodeExpandVolume" /\ ret # NoRet
    /\ args' \in ExpandCalls /\ ret' = NoRet
    /\ Aside

\* SpecExpand: NodeExpandVolume calls with every kind of request.
InitExpand ==
    /\ InitServer
    /\ enableDeviceInUseCheck = FALSE
    /\ EnableDataCache = FALSE
    /\ DataCacheEnabledNodePool = FALSE
    /\ args \in ExpandCalls
    /\ ret = NoRet

NextExpand ==
    \/ ExpandVolume
    \/ ExpandNext

SpecExpand == InitExpand /\ [][NextExpand]_vars

\* ================================================================ NodeGetVolumeStats
\* NodeGetVolumeStats takes no volume lock.  lstat is what os.Lstat answered
\* for the volume path, stat what IsBlockDevice answered; the response lists
\* the units of the usages it reports.
Stats(code, e, units) ==
    [fn |-> "NodeGetVolumeStats", code |-> code, eff |-> e, units |-> units]

NodeGetVolumeStats(a, lstat, stat, sizeOK, statfsOK) ==
    LET e1 == <<"Lstat">>
        e2 == e1 \o <<"IsBlockDevice">>
    IN  IF a.defect \in {"noVolumeID", "noVolumePath"} THEN Stats("InvalidArgument", << >>, << >>)
        ELSE IF lstat = "notExist" THEN Stats("NotFound", e1, << >>)
        ELSE IF lstat = "error" THEN Stats("Internal", e1, << >>)
        ELSE IF stat = "error" THEN Stats("Internal", e2, << >>)
        ELSE IF stat = "block"
          THEN IF sizeOK THEN Stats("OK", e2 \o <<"getBlockSizeBytes">>, <<"BYTES">>)
               ELSE Stats("Internal", e2 \o <<"getBlockSizeBytes">>, << >>)
        ELSE IF statfsOK THEN Stats("OK", e2 \o <<"StatFS">>, <<"BYTES", "INODES">>)
        ELSE Stats("Internal", e2 \o <<"StatFS">>, << >>)

\* ---------------------------------------------------------------- beside the lifecycle
\* SpecBeside: NodeExpandVolume and NodeGetVolumeStats are called for two
\* volumes while a caller runs the four lifecycle handlers for one of them.
\* ret holds the response and, as an observation, the lock set under which the
\* handler ran and the lifecycle handlers that were serving its volume.
BesideCalls ==
    [fn : {"NodeExpandVolume"}, vol : Volumes, defect : {"none", "noVolumeID"},
     reqBytes : {1}, cap : {"none", "mount"}, mode : {"rw"}]
    \cup [fn : {"NodeGetVolumeStats"}, vol : Volumes,
          defect : {"none", "noVolumeID", "noVolumePath"}]

BesideRequests == { Plain(op, "vol-a") : op \in {"Stage", "Publish", "Unpublish", "Unstage"} }

\* The lifecycle handlers serving v: the calls for v that are in their body.
Serving(v) == { req[p].op : p \in { q \in Procs : ~Free(q) /\ req[q].vol = v } }

Beside(resp) ==
    [fn |-> resp.fn, resp |-> resp, locks |-> volumeLocks, serving |-> Serving(args.vol)]

\* Fault variant: NodeExpandVolume tries the lock of its volume like a
\* lifecycle handler.
ExpandBeside_Locked ==
    /\ args.fn = "NodeExpandVolume" /\ ret = NoRet
    /\ \E devOK \in BOOLEAN, resizeOK \in BOOLEAN, size \in {0, 1} :
          ret' = Beside(IF args.defect = "none" /\ ~TryAcquire(volumeLocks, args.vol)
                          THEN Expanded("Aborted", 0, << >>, -1)
                          ELSE NodeExpandVolume(args, devOK, resizeOK, size))
    /\ UNCHANGED args /\ Aside

ExpandBeside ==
    /\ args.fn = "NodeExpandVolume" /\ ret = NoRet
    /\ \E devOK \in BOOLEAN, resizeOK \in BOOLEAN, size \in {0, 1} :
          ret' = Beside(NodeExpandVolume(args, devOK, resizeOK, size))
    /\ UNCHANGED args /\ Aside

StatsBeside ==
    /\ args.fn = "NodeGetVolumeStats" /\ ret = NoRet
    /\ \E lstat \in {"ok", "notExist", "error"}, stat \in {"error", "block", "notBlock"},
          sizeOK \in BOOLEAN, statfsOK \in BOOLEAN :
          ret' = Beside(NodeGetVolumeStats(args, lstat, stat, sizeOK, statfsOK))
    /\ UNCHANGED args /\ Aside

\* The caller reads the response and sends the next request.
BesideNext ==
    /\ ret # NoRet
    /\ args' \in BesideCalls /\ ret' = NoRet
    /\ Aside

InitBeside ==
    /\ InitServer
    /\ enableDeviceInUseCheck = FALSE
    /\ EnableDataCache = FALSE
    /\ DataCacheEnabledNodePool = FALSE
    /\ args \in BesideCalls
    /\ ret = NoRet

NextBeside ==
    \/ \E p \in Caller, r \in BesideRequests : StageBegin(p, r) /\ Unobserved /\ UNCHANGED applied
    \/ \E p \in Caller : StagePrepare(p) /\ Unobserved /\ UNCHANGED applied
    \/ \E p \in Caller : StageReserve(p) /\ Unobserved /\ UNCHANGED applied
    \/ \E p \in Caller : StageMount(p) /\ Unobserved /\ UNCHANGED applied
    \/ \E p \in Caller, r \in BesideRequests : PublishBegin(p, r) /\ Unobserved /\ UNCHANGED applied
    \/ \E p \in Caller : PublishBody(p) /\ Unobserved /\ UNCHANGED applied
    \/ \E p \in Caller, r \in BesideRequests : UnpublishBegin(p, r) /\ Unobserved /\ UNCHANGED applied
    \/ \E p \in Caller : UnpublishBody(p) /\ Unobserved /\ UNCHANGED applied
    \/ \E p \in Caller, r \in BesideRequests : UnstageBegin(p, r) /\ Unobserved /\ UNCHANGED applied
    \/ \E p \in Caller : UnstageBody(p) /\ Unobserved /\ UNCHANGED applied
    \/ ExpandBeside
    \/ StatsBeside
    \/ BesideNext

SpecBeside == InitBeside /\ [][NextBeside]_vars

\* ================================================================ GetVolumeLimits, NodeGetInfo
volumeLimitSmall == 15
volumeLimitBig == 127
x4HyperdiskLimit == 39
a4HyperdiskLimit == 127

\* A machine type is modelled by strings.Split(machineType, "-"): a sequence
\* of parts, each a text, that is a sequence of characters.
\* "c4-standard-8" is <<Text_c4, Text_standard, <<"8">>>>.
MaxParts == 4
Text_f1 == <<"f", "1">>
Text_g1 == <<"g", "1">>
Text_e2 == <<"e", "2">>
Text_n1 == <<"n", "1">>
Text_c4a == <<"c", "4", "a">>
Text_c4 == <<"c", "4">>
Text_n4 == <<"n", "4">>
Text_c4d == <<"c", "4", "d">>
Text_x4 == <<"x", "4">>
Text_a4 == <<"a", "4">>
Text_micro == <<"m", "i", "c", "r", "o">>
Text_small == <<"s", "m", "a", "l", "l">>
Text_medium == <<"m", "e", "d", "i", "u", "m">>
Text_standard == <<"s", "t", "a", "n", "d", "a", "r", "d">>
Families ==
    {Text_f1, Text_g1, Text_e2, Text_n1, Text_c4a, Text_c4, Text_n4, Text_c4d, Text_x4, Text_a4}
Kinds == {Text_micro, Text_small, Text_medium, Text_standard}
Texts == { << >>, <<"8">>, <<"9", "6">>, <<"+", "4">>, <<"l", "s", "s", "d">> }
PartsAt(i) == IF i = 1 THEN Families ELSE IF i = 2 THEN Kinds ELSE Texts
MachineTypes ==
    UNION { { mt \in [1..n -> Families \cup Kinds \cup Texts] :
                \A i \in 1..n : mt[i] \in PartsAt(i) } : n \in 1..MaxParts }

\* strings.HasPrefix(machineType, family + "-")
HasPrefix(mt, family) == Len(mt) >= 2 /\ mt[1] = family

\* The node as the cluster API shows it: ok is whether the node could be
\* read, found whether it carries the override label, val the label's text.
LabelTexts ==
    { <<"0">>, <<"1">>, <<"1", "2", "7">>, <<"1", "2", "8">>, <<"-", "5">>, <<"a">>, << >> }
Nodes ==
    { [ok |-> FALSE, found |-> FALSE, val |-> << >>],
      [ok |-> TRUE, found |-> FALSE, val |-> << >>] }
      \cup { [ok |-> TRUE, found |-> TRUE, val |-> t] : t \in LabelTexts }

GetAttachLimitsOverrideFromNodeLabel(node) ==
    IF ~node.ok THEN [val |-> 0, err |-> TRUE]
    ELSE IF node.found
      THEN IF ParseInt(node.val).err THEN [val |-> 0, err |-> TRUE] ELSE ParseInt(node.val)
    ELSE [val |-> 0, err |-> FALSE]

\* common.GetHyperdiskAttachLimit: the limit table of the family.  The table
\* is not part of this file; an entry is identified by family and CPU count.
GetHyperdiskAttachLimit(prefix, cpus) ==
    cpus + 1000 * (CASE prefix = Text_c4 -> 1 [] prefix = Text_c4a -> 2 [] prefix = Text_n4 -> 3
                     [] prefix = Text_c4d -> 4 [] OTHER -> 5)

smallMachineTypes ==
    { <<Text_f1, Text_micro>>, <<Text_g1, Text_small>>, <<Text_e2, Text_micro>>,
      <<Text_e2, Text_small>>, <<Text_e2, Text_medium>> }
gen4MachineTypesPrefix == <<Text_c4a, Text_c4, Text_n4, Text_c4d>>

Limit(val, err) == [limit |-> val, err |-> err]

\* Everything after the override: the defaults of the machine type.
GetVolumeLimits_Defaults(machineType) ==
    LET matches == { i \in DOMAIN gen4MachineTypesPrefix :
                       HasPrefix(machineType, gen4MachineTypesPrefix[i]) }
    IN  IF matches # {}
          THEN LET gen4Prefix ==
                       gen4MachineTypesPrefix[CHOOSE i \in matches : \A j \in matches : i <= j]
               IN  IF Len(machineType) > 2
                     THEN LET cpus == ParseInt(machineType[3])
                          IN  IF cpus.err THEN Limit(volumeLimitBig, TRUE)
                              ELSE Limit(GetHyperdiskAttachLimit(gen4Prefix, cpus.val), FALSE)
                     ELSE Limit(volumeLimitBig, TRUE)
        ELSE IF HasPrefix(machineType, Text_x4) THEN Limit(x4HyperdiskLimit, FALSE)
        ELSE IF HasPrefix(machineType, Text_a4) THEN Limit(a4HyperdiskLimit, FALSE)
        ELSE Limit(volumeLimitBig, FALSE)

\* Fault variant: the override label is consulted before the list of small
\* machine types.
GetVolumeLimits_OverrideFirst(machineType, node) ==
    LET attachLimitOverride == GetAttachLimitsOverrideFromNodeLabel(node)
    IN  IF ~attachLimitOverride.err /\ attachLimitOverride.val > 0
              /\ attachLimitOverride.val < 128
          THEN Limit(attachLimitOverride.val, FALSE)
        ELSE IF machineType \in smallMachineTypes THEN Limit(volumeLimitSmall, FALSE)
        ELSE GetVolumeLimits_Defaults(machineType)

GetVolumeLimits(machineType, node) ==
    IF machineType \in smallMachineTypes THEN Limit(volumeLimitSmall, FALSE)
    ELSE LET attachLimitOverride == GetAttachLimitsOverrideFromNodeLabel(node)
         IN  IF ~attachLimitOverride.err /\ attachLimitOverride.val > 0
                   /\ attachLimitOverride.val < 128
               THEN Limit(attachLimitOverride.val, FALSE)
             ELSE GetVolumeLimits_Defaults(machineType)

\* common.CreateNodeID(project, zone, name)
CreateNodeID(project, zone, name) == <<project, zone, name>>

InfoResponse(nodeID, limit, zone, err) ==
    [fn |-> "NodeGetInfo", NodeId |-> nodeID, MaxVolumesPerNode |-> limit,
     AccessibleTopology |-> zone, err |-> err]

\* Fault variant: the error of GetVolumeLimits is returned to the caller.
NodeGetInfo_Surfaces(a) ==
    LET volumeLimits == GetVolumeLimits(a.machineType, a.node)
    IN  InfoResponse(CreateNodeID(a.project, a.zone, a.name), volumeLimits.limit, a.zone,
                     volumeLimits.err)

NodeGetInfo(a) ==
    LET volumeLimits == GetVolumeLimits(a.machineType, a.node)
    IN  InfoResponse(CreateNodeID(a.project, a.zone, a.name), volumeLimits.limit, a.zone,
                     FALSE)

\* What the metadata service and the cluster answer.
LimitCalls ==
    [fn : {"NodeGetInfo", "GetVolumeLimits"}, machineType : MachineTypes, node : Nodes,
     project : {"proj"}, zone : {"zone-a", "zone-b"}, name : {"node-1"}]

GetInfo ==
    /\ args.fn = "NodeGetInfo" /\ ret = NoRet
    /\ ret' = NodeGetInfo(args)
    /\ UNCHANGED args /\ Aside

ResolveLimit ==
    /\ args.fn = "GetVolumeLimits" /\ ret = NoRet
    /\ ret' = [fn |-> "GetVolumeLimits",
               out |-> GetVolumeLimits(args.machineType, args.node)]
    /\ UNCHANGED args /\ Aside

\* SpecLimits: GetVolumeLimits and NodeGetInfo for every machine type and node.
InitLimits ==
    /\ InitServer
    /\ enableDeviceInUseCheck = FALSE
    /\ EnableDataCache = FALSE
    /\ DataCacheEnabledNodePool = FALSE
    /\ args \in LimitCalls
    /\ ret = NoRet

NextLimits ==
    \/ GetInfo
    \/ ResolveLimit

SpecLimits == InitLimits /\ [][NextLimits]_vars

-----------------------------------------------------------------------------
\* Properties of the per-volume lock.

\* The call in slot p is inside the body of its handler: past the TryAcquire
\* of its volume, before its deferred Release.
InBody(p) ==
    pc[p] \in {"stage_locked", "fm_reserve", "fm_run",
               "publish_locked", "unpublish_locked", "unstage_locked"}

\* The call in slot p returned the lock-contention error.
Contended(p) == pc[p] = "done" /\ res[p] = "Aborted"

\* Slot p takes a new call in this step.
Begins(p) ==
    Free(p) /\ <<pc[p], req[p], res[p], eff[p]>>' # <<pc[p], req[p], res[p], eff[p]>>

\* C1: of the Stage, Unstage, Publish and Unpublish calls dispatched
\* concurrently for one volume, at most one is inside its body at any time.
C1_MutualExclusion ==
    \A p, q \in Procs :
        p # q /\ InBody(p) /\ InBody(q) => req[p].vol # req[q].vol

\* Two calls of different operations were dispatched for one volume: one is
\* in its body, the other was turned away.
C1_Witness ==
    \E p, q \in Procs :
        /\ InBody(p) /\ Contended(q)
        /\ req[q].vol = req[p].vol /\ req[q].op # req[p].op

\* C2: a call that finds the lock of its volume held by another call returns
\* the lock-contention error (Aborted) at once: it calls no collaborator and
\* changes neither the lock registry, nor the in-use records, nor the limiter,
\* nor any mount.
C2_ContentionNoSideEffects ==
    [][\A p \in Procs :
          ( /\ Begins(p)
            /\ req'[p].defect # "missingField"
            /\ \E q \in Procs \ {p} : InBody(q) /\ req[q].vol = req'[p].vol )
          => /\ Contended(p)'
             /\ eff'[p] = << >> /\ obs'[p] = "none"
             /\ UNCHANGED <<volumeLocks, deviceInUseErrors, formatAndMountSemaphore,
                            stagingMounted, targetMounted>>]_vars

\* An Unpublish call was turned away while a Publish call of the same volume
\* is in its body.
C2_Witness ==
    \E p, q \in Procs :
        /\ req[q].op = "Publish" /\ pc[q] = "publish_locked"
        /\ req[p].op = "Unpublish" /\ req[p].vol = req[q].vol
        /\ Contended(p) /\ eff[p] = << >>
        /\ req[p].vol \in volumeLocks

\* C3: every return of a handler that acquired the lock of its volume releases
\* it, whatever the exit path: the lock registry holds exactly the volumes of
\* the calls that are inside their bodies, so it is empty when no call is in
\* flight, and a caller that issues its calls one after another, retries of
\* failed calls included, is never turned away with the lock-contention error.
C3_LockReleased ==
    /\ volumeLocks = { req[p].vol : p \in { q \in Procs : InBody(q) } }
    /\ \A p \in Procs : ~Contended(p)

\* The retry of an Unstage call that the in-use check failed has acquired the
\* lock of the volume.
C3_Witness ==
    \E p \in Procs :
        /\ req[p].op = "Unstage" /\ pc[p] = "unstage_locked"
        /\ inUseFailures[req[p].vol].open
        /\ volumeLocks = {req[p].vol}

-----------------------------------------------------------------------------
\* Independence of distinct volumes.

\* The call in slot p is held up in front of the format+mount sequence, every
\* slot of the limiter being taken.
SlotWait(p) ==
    /\ pc[p] = "fm_reserve"
    /\ formatAndMount_Reserve(formatAndMountSemaphore, now - waitSince[p]) = "wait"

\* The call in slot p is turned away, in this step, with the lock-contention
\* error.
Rejected(p) == Begins(p) /\ Contended(p)'

\* Some call of the volume v other than the one in slot p is in its body.
HeldByOther(p, v) == \E q \in Procs \ {p} : InBody(q) /\ req[q].vol = v

\* Some call of a volume other than v holds a slot of the limiter.
SlotHeldForOther(v) == \E q \in Procs : holdsSlot[q] /\ req[q].vol # v

-----------------------------------------------------------------------------
\* Idempotence of Stage and Publish.

\* The call in slot p has returned, and it repeated the request of the Stage,
\* respectively Publish, call that last succeeded for its volume, whose path
\* was a mount point when the call arrived.
Repeated(p) ==
    pc[p] = "done" /\ retryOf[p] /\ req[p].op \in {"Stage", "Publish"}

\* The call in slot p invoked the format+mount or the bind-mount primitive.
Remounted(p) ==
    \E i \in DOMAIN eff[p] : eff[p][i] \in {"formatAndMount", "mount"}

\* The call in slot p failed in a step that NodeStageVolume runs ahead of the
\* mount-point probe: the resolution of the device path or the set-up of the
\* data cache.
FailedAheadOfProbe(p) ==
    /\ req[p].op = "Stage"
    /\ res[p] \in {"Internal", "DataLoss", "InvalidArgument"}
    /\ eff[p] # << >>
    /\ eff[p][Len(eff[p])] \in {"getDevicePath", "setupCaching"}

-----------------------------------------------------------------------------
\* The device-in-use tracker.

\* The Unstage call in slot p returns in this step.
UnstageReturns(p) == pc[p] = "unstage_locked" /\ pc'[p] = "done"

HasRecord(v) == v \in DOMAIN deviceInUseErrors

\* The record of v is younger than the timeout.
Fresh(v) == HasRecord(v) /\ now - deviceInUseErrors[v] < DeviceInUseTimeout

\* The record of v has reached the age of the timeout.
Expired(v) == HasRecord(v) /\ now - deviceInUseErrors[v] >= DeviceInUseTimeout

\* The call in slot p returned success, or the failure of the tear-down of
\* the data cache, which follows the in-use step.
OkOrCacheFailure(p) ==
    \/ res[p] = "OK"
    \/ /\ res[p] = "DataLoss"
       /\ EnableDataCache /\ DataCacheEnabledNodePool
       /\ eff[p][Len(eff[p])] = "cleanupCache"

\* C6: with the in-use check enabled and the unmount done, an Unstage call
\* that finds the device still in use fails with a retryable error when there
\* is no record of the volume, creating one stamped with the current time, and
\* when there is a record younger than the timeout, which it keeps with the
\* time of the first observation.
C6_InUseFailsRetryably ==
    [][\A p \in Procs :
          UnstageReturns(p) /\ obs'[p] = "inUse"
                            /\ (~HasRecord(req[p].vol) \/ Fresh(req[p].vol))
          => /\ res'[p] = "Internal"
             /\ HasRecord(req[p].vol)'
             /\ deviceInUseErrors'[req[p].vol] =
                    IF HasRecord(req[p].vol) THEN deviceInUseErrors[req[p].vol] ELSE now]_vars

\* A second Unstage call in a row was failed by the in-use check, later than
\* the first: the record still carries the time of the first.
C6_Witness ==
    \E p \in Procs :
        /\ pc[p] = "done" /\ req[p].op = "Unstage"
        /\ obs[p] = "inUse" /\ res[p] = "Internal"
        /\ inUseFailures[req[p].vol].open /\ inUseFailures[req[p].vol].n >= 2
        /\ Fresh(req[p].vol) /\ deviceInUseErrors[req[p].vol] < now

C8_ReleaseSucceeds ==
    [][\A p \in Procs :
          UnstageReturns(p) =>
             /\ obs'[p] = "inUse" /\ (~HasRecord(req[p].vol) \/ Fresh(req[p].vol))
                  => res'[p] = "Internal"
             /\ obs'[p] = "nil" /\ inUseFailures[req[p].vol].open
                  => ~HasRecord(req[p].vol)' /\ res'[p] = "OK"]_vars

\* C8, amended: the call that finds the device unused leaves no record; it
\* succeeds unless the tear-down of the data cache fails, and then it reports
\* DataLoss.
C8_ReleasePassesCheck ==
    [][\A p \in Procs :
          UnstageReturns(p) =>
             /\ obs'[p] = "inUse" /\ (~HasRecord(req[p].vol) \/ Fresh(req[p].vol))
                  => res'[p] = "Internal"
             /\ obs'[p] = "nil" /\ inUseFailures[req[p].vol].open
                  => ~HasRecord(req[p].vol)' /\ OkOrCacheFailure(p)']_vars

\* MaxFailures Unstage calls in a row were failed by the in-use check, and the
\* next found the device unused and returned success.
C8_Witness ==
    \E p \in Procs :
        /\ pc[p] = "done" /\ req[p].op = "Unstage"
        /\ obs[p] = "nil" /\ res[p] = "OK"
        /\ inUseFailures[req[p].vol].endedBy = "nil"
        /\ inUseFailures[req[p].vol].n = MaxFailures
        /\ ~HasRecord(req[p].vol)

\* The latest Unstage call of k that reached the in-use check was failed by it.
LastCheckFailed(k) == inUseFailures[k].open

\* The Unstage call in slot p has passed the in-use step: device unused,
\* ignoreable error, or give-up.
PassedCheck(p) ==
    obs[p] # "none" /\ ~(obs[p] = "inUse" /\ res[p] = "Internal")

\* C9: a record of k exists only if the latest Unstage call of k that reached
\* the in-use check was failed by it; no record of k exists after an Unstage
\* call of k that passed the in-use step; and the record of k is created,
\* changed or deleted by no step but the return of an Unstage call of k.
C9_RecordInvariant ==
    [][/\ \A k \in Volumes : /\ HasRecord(k) => LastCheckFailed(k)
                              /\ (HasRecord(k) => LastCheckFailed(k))'
       /\ \A p \in Procs :
             UnstageReturns(p) /\ PassedCheck(p)' => ~HasRecord(req[p].vol)'
       /\ \A k \in Volumes :
             ( \/ HasRecord(k) # HasRecord(k)'
               \/ HasRecord(k) /\ deviceInUseErrors'[k] # deviceInUseErrors[k] )
             => \E p \in Procs : UnstageReturns(p) /\ req[p].vol = k]_vars

\* A Stage call of a volume has run to success while the record of the volume,
\* left by a failed Unstage call, stays in place.
C9_Witness ==
    \E p \in Procs :
        /\ pc[p] = "done" /\ req[p].op = "Stage" /\ res[p] = "OK"
        /\ HasRecord(req[p].vol) /\ LastCheckFailed(req[p].vol)
        /\ eff[p] # << >>

\* C10: an Unstage call whose in-use step cannot resolve the device path of
\* the volume leaves no record of the volume, whether one existed or not and
\* whatever its age, and is not failed by the in-use check: it returns success
\* or the failure of the tear-down of the data cache.
C10_UnresolvedIsIgnored ==
    [][\A p \in Procs :
          UnstageReturns(p) /\ obs'[p] = "ignoreable:getDevicePath"
          => ~HasRecord(req[p].vol)' /\ OkOrCacheFailure(p)']_vars

\* An Unstage call that followed calls failed by the in-use check could not
\* resolve the device path, returned success and left no record.
C10_Witness ==
    \E p \in Procs :
        /\ pc[p] = "done" /\ req[p].op = "Unstage"
        /\ obs[p] = "ignoreable:getDevicePath" /\ res[p] = "OK"
        /\ inUseFailures[req[p].vol].endedBy = "ignoreable:getDevicePath"
        /\ ~HasRecord(req[p].vol)

-----------------------------------------------------------------------------
\* The limiter of the format+mount sequence.

\* The calls that hold a slot.
SlotHolders == { p \in Procs : holdsSlot[p] }

\* C11: with a capacity N > 0, the number of reserved slots is between 0 and
\* N and is the number of Stage calls holding one; a call holds a slot only
\* while it is in its format+mount sequence, so the slot is released when the
\* sequence completes, and no slot is reserved when no call is in that step.
C11_SlotsAccounted ==
    /\ formatAndMountSemaphore \in 0..MaxConcurrent
    /\ formatAndMountSemaphore = Cardinality(SlotHolders)
    /\ \A p \in SlotHolders : pc[p] = "fm_run" /\ req[p].op = "Stage"
    /\ (\A p \in Procs : pc[p] # "fm_run") => formatAndMountSemaphore = 0

\* The only Stage call so far reserved a slot, its format+mount sequence
\* failed, and the call has returned: no slot is reserved.
C11_Witness ==
    /\ MaxConcurrent > 0
    /\ formatAndMountSemaphore = 0
    /\ \E p \in Procs :
          /\ pc[p] = "done" /\ req[p].op = "Stage" /\ res[p] = "Internal"
          /\ eff[p] # << >> /\ eff[p][Len(eff[p])] = "formatAndMount"
          /\ \A q \in Procs \ {p} : pc[q] = "idle"

\* The wait of the call in slot p began early enough for the clock of the
\* model to reach its timeout.
WaitInHorizon(p) == waitSince[p] + FormatAndMountTimeout <= MaxTime

\* The call in slot p has waited for a slot as long as the timeout, every
\* slot being taken.
WaitTimedOut(p) ==
    /\ pc[p] = "fm_reserve"
    /\ formatAndMount_Reserve(formatAndMountSemaphore, now - waitSince[p]) = "bypass"

-----------------------------------------------------------------------------
\* The options handed to the mount primitives.

\* The flag matches the read_ahead_kb pattern or one of the two btrfs
\* reclaim-threshold patterns.
IsTunable(f) ==
    readAheadKBMountFlagRegex(f) \/ btrfsReclaimDataRegex(f) \/ btrfsReclaimMetadataRegex(f)

\* C13: the option list that a Stage or Publish call with a mount capability
\* hands to the mount primitive holds no token that matches the read_ahead_kb
\* pattern or a btrfs reclaim-threshold pattern, whatever the flags and the
\* filesystem type, the second attempt with noload included; every other flag
\* is handed on.
C13_NoTunableInOptions ==
    ret.fn \in {"formatAndMount", "Mount"} =>
        /\ \A i \in DOMAIN ret.options : ~IsTunable(ret.options[i])
        /\ \A i \in DOMAIN args.flags :
              ~IsTunable(args.flags[i])
                  => \E j \in DOMAIN ret.options : ret.options[j] = args.flags[i]

\* The second attempt of a read-only Stage whose flags hold a read_ahead_kb
\* token and an ordinary one: noload is added, the ordinary flag is kept.
C13_Witness ==
    /\ args.fn = "NodeStageVolume" /\ ret.fn = "formatAndMount" /\ ret.n = 2
    /\ \E i \in DOMAIN args.flags : readAheadKBMountFlagRegex(args.flags[i])
    /\ \E i \in DOMAIN args.flags : ~IsTunable(args.flags[i])
    /\ Len(ret.options) = Len(args.flags) + 1
    /\ ret.options[Len(ret.options)] = Option("noload")

-----------------------------------------------------------------------------
\* Stage with a block capability.

\* The call in slot p was a Stage call with a block capability and valid
\* fields, it has returned, and the device path was resolved.
BlockStageReturned(p) ==
    /\ pc[p] = "done" /\ req[p].op = "Stage"
    /\ req[p].cap = "block" /\ req[p].defect = "none"
    /\ ~(res[p] = "Internal" /\ eff[p] = <<"getDevicePath">>)

\* The call in slot p made no format+mount attempt, with or without a slot,
\* no resize, no read-ahead update and no write of a btrfs tunable.
MountedNothing(p) ==
    /\ attempt[p] = 0 /\ ~holdsSlot[p]
    /\ \A i \in DOMAIN eff[p] :
          eff[p][i] \notin {"formatAndMount", "resize", "IsBlockDevice", "setReadAheadKB",
                            "blkid", "writeSysfs"}

\* C14, as stated: a Stage call with a block capability, valid fields and a
\* resolvable device returns success and makes no format+mount call, reserves
\* no slot, and makes no resize, read-ahead or tunable write.
C14_BlockStageSucceeds ==
    \A p \in Procs : BlockStageReturned(p) => res[p] = "OK" /\ MountedNothing(p)

\* C14, amended: such a call never mounts, reserves, resizes or tunes; it
\* returns success unless the creation of the staging directory fails
\* (Internal) or, for a request with data-cache parameters on a node with the
\* data cache enabled, the validation or set-up of the cache fails (DataLoss
\* or InvalidArgument).
C14_BlockStageMountsNothing ==
    \A p \in Procs :
        BlockStageReturned(p) =>
            /\ MountedNothing(p)
            /\ \/ res[p] = "OK"
               \/ res[p] = "Internal" /\ eff[p][Len(eff[p])] = "mkdir"
               \/ /\ res[p] \in {"DataLoss", "InvalidArgument"}
                  /\ EnableDataCache /\ req[p].cache # "none"

\* A Stage call with a block capability created the staging directory and
\* returned success; the staging path is no mount point.
C14_Witness ==
    \E p \in Procs :
        /\ BlockStageReturned(p) /\ res[p] = "OK"
        /\ eff[p] = <<"getDevicePath", "mkdir">>
        /\ ~stagingMounted[req[p].vol]

-----------------------------------------------------------------------------
\* NodeExpandVolume.

\* NodeExpandVolume has returned from a request with a writable mount
\* capability, or none, after a resize that succeeded.
ResizedWritable ==
    /\ ret.fn = "NodeExpandVolume"
    /\ args.cap \in {"none", "mount"} /\ (args.cap = "mount" => args.mode = "rw")
    /\ \E i \in DOMAIN ret.eff : ret.eff[i] = "getBlockSizeBytes"

\* C15: after a resize that succeeded, NodeExpandVolume fails exactly when the
\* size measured is strictly smaller than the size requested; when it is equal
\* or larger the call succeeds and reports the requested byte count as the
\* capacity, not the measured one.
C15_FailsOnlyWhenSmaller ==
    ResizedWritable =>
        /\ ret.code = "Internal" <=> ret.diskSizeBytes < args.reqBytes
        /\ ret.diskSizeBytes >= args.reqBytes
              => ret.code = "OK" /\ ret.CapacityBytes = args.reqBytes

\* The device came out larger than requested: success, and the capacity
\* reported is the requested one.
C15_Witness ==
    /\ ResizedWritable /\ args.cap = "mount"
    /\ ret.diskSizeBytes > args.reqBytes /\ args.reqBytes > 0
    /\ ret.code = "OK" /\ ret.CapacityBytes = args.reqBytes
    /\ ret.CapacityBytes # ret.diskSizeBytes

\* NodeExpandVolume has returned from a request with valid fields and a block
\* or read-only capability, the device path resolved.
ExpandNoOp ==
    /\ ret.fn = "NodeExpandVolume" /\ args.defect = "none"
    /\ args.cap = "block" \/ (args.cap = "mount" /\ args.mode = "ro")
    /\ ~(ret.code = "Internal" /\ ret.eff = <<"getDevicePath">>)

NoResize == \A i \in DOMAIN ret.eff : ret.eff[i] # "Resize"

\* C16, as stated: NodeExpandVolume with a block or read-only capability makes
\* no resize and returns success, reporting the requested size as the
\* capacity.
C16_NoOpReportsRequested ==
    ExpandNoOp => ret.code = "OK" /\ NoResize /\ ret.CapacityBytes = args.reqBytes

\* C16, amended: it makes no resize and returns success with an empty
\* response, whose capacity is 0 whatever size was requested.
C16_NoOpReportsNothing ==
    ExpandNoOp => ret.code = "OK" /\ NoResize /\ ret.CapacityBytes = 0

\* A read-only capability and a request for MaxBytes: success, capacity 0.
C16_Witness ==
    /\ ExpandNoOp /\ args.cap = "mount" /\ args.mode = "ro"
    /\ args.reqBytes = MaxBytes
    /\ ret.code = "OK" /\ ret.CapacityBytes = 0 /\ ret.eff = <<"getDevicePath">>

-----------------------------------------------------------------------------
\* Bad requests.

\* A step of the call in slot p.
CallStep(p) == <<pc[p], req[p], res[p], eff[p]>>' # <<pc[p], req[p], res[p], eff[p]>>

\* The call in slot p returns InvalidArgument in this step.
ReturnsBadRequest(p) ==
    /\ CallStep(p) /\ (Free(p) \/ pc[p] # "done")
    /\ pc'[p] = "done" /\ res'[p] = "InvalidArgument"

\* The call in slot p has invoked one of the collaborators named.
Invoked(p, names) == \E i \in DOMAIN eff[p] : eff[p][i] \in names

\* The lock set and the in-use records are as the only caller found them: it
\* holds no lock between calls, and no step of a call that ends in a bad
\* request writes the record map.
StateAsBefore(p) ==
    /\ Free(p) => volumeLocks = {}
    /\ volumeLocks' = {}
    /\ deviceInUseErrors' = deviceInUseErrors
    /\ req'[p].op = "Unstage" => Free(p)

RecordsKeptOutsideUnstage ==
    \A p \in Procs :
        CallStep(p) /\ req'[p].op # "Unstage" => deviceInUseErrors' = deviceInUseErrors

-----------------------------------------------------------------------------
\* The attach limit.

\* The machine type is one of the shared-core types.
SharedCore(mt) ==
    \/ mt = <<Text_f1, Text_micro>> \/ mt = <<Text_g1, Text_small>>
    \/ mt[1] = Text_e2 /\ Len(mt) = 2 /\ mt[2] \in {Text_micro, Text_small, Text_medium}

\* The machine type starts with a next-generation prefix.
NextGeneration(mt) == Len(mt) >= 2 /\ mt[1] \in {Text_c4a, Text_c4, Text_n4, Text_c4d}

\* The CPU count of the machine type, its third part, is there and parses.
CpusParse(mt) == Len(mt) >= 3 /\ ~ParseInt(mt[3]).err

\* The node carries an override label that reads as a number x, 0 < x < 128.
SaneOverride(node) ==
    /\ node.ok /\ node.found /\ ~ParseInt(node.val).err
    /\ ParseInt(node.val).val > 0 /\ ParseInt(node.val).val < 128

\* C18: NodeGetInfo returns no error; when GetVolumeLimits fails, as for a
\* machine type with a next-generation prefix and no CPU count that parses,
\* it still reports the node ID, the zone and the limit that came with the
\* error, volumeLimitBig.
C18_GetInfoNeverFails ==
    ret.fn = "NodeGetInfo" =>
        /\ ~ret.err
        /\ ret.NodeId = <<args.project, args.zone, args.name>>
        /\ ret.AccessibleTopology = args.zone
        /\ ~SharedCore(args.machineType) /\ ~SaneOverride(args.node)
              /\ NextGeneration(args.machineType) /\ ~CpusParse(args.machineType)
              => /\ GetVolumeLimits(args.machineType, args.node).err
                 /\ ret.MaxVolumesPerNode = volumeLimitBig

\* NodeGetInfo answered for "c4-standard-lssd", whose CPU count does not parse.
C18_Witness ==
    /\ ret.fn = "NodeGetInfo"
    /\ args.machineType = <<Text_c4, Text_standard, <<"l", "s", "s", "d">>>>
    /\ ~SaneOverride(args.node)
    /\ ~ret.err /\ ret.MaxVolumesPerNode = volumeLimitBig

\* C19: GetVolumeLimits applies its rules in order: a shared-core machine
\* type gives 15 whatever the override; otherwise an override x, 0 < x < 128,
\* gives x whatever the machine type; otherwise a next-generation prefix
\* gives the table entry of the family for the CPU count parsed; otherwise
\* x4- gives 39 and a4- gives 127; otherwise 127.  An override out of range
\* or a failed lookup gives what a node without the label gives.
C19_PriorityOrder ==
    ret.fn = "GetVolumeLimits" =>
        LET mt == args.machineType
            node == args.node
            out == ret.out
        IN  IF SharedCore(mt) THEN out = Limit(15, FALSE)
            ELSE IF SaneOverride(node) THEN out = Limit(ParseInt(node.val).val, FALSE)
            ELSE /\ NextGeneration(mt) /\ CpusParse(mt)
                      => out = Limit(GetHyperdiskAttachLimit(mt[1], ParseInt(mt[3]).val), FALSE)
                 /\ ~NextGeneration(mt) /\ Len(mt) >= 2 /\ mt[1] = Text_x4
                      => out = Limit(39, FALSE)
                 /\ ~NextGeneration(mt) /\ Len(mt) >= 2 /\ mt[1] = Text_a4
                      => out = Limit(127, FALSE)
                 /\ ~NextGeneration(mt) /\ ~(Len(mt) >= 2 /\ mt[1] \in {Text_x4, Text_a4})
                      => out = Limit(127, FALSE)
                 /\ out = GetVolumeLimits(mt, [ok |-> TRUE, found |-> FALSE, val |-> << >>])

\* A shared-core machine on a node whose override label reads 127: 15.
C19_Witness ==
    /\ ret.fn = "GetVolumeLimits"
    /\ args.machineType = <<Text_e2, Text_medium>>
    /\ args.node = [ok |-> TRUE, found |-> TRUE, val |-> <<"1", "2", "7">>]
    /\ ret.out.limit = 15

-----------------------------------------------------------------------------
\* The journal-skip fallback.

\* The capability is read-only and the filesystem type, the default when the
\* capability names none, is ext4 or ext3.
JournalReplays(a) == a.ro /\ a.fsType \in {"", "ext4", "ext3"}

\* The latest formatAndMount of the Stage call was its first and failed.
FirstFailed == ret.fn = "formatAndMount" /\ ret.n = 1 /\ ~ret.fmOK

\* C20: when the first formatAndMount of a Stage call fails, a second is made
\* if and only if the capability is read-only and the filesystem type is ext4
\* or ext3; the second is given the options of the first plus noload; a call
\* makes no third; when the second fails, or none is allowed, the call
\* returns Internal.
C20_JournalSkipFallback ==
    /\ [](ret.fn = "formatAndMount" =>
            /\ ret.n \in {1, 2}
            /\ FirstFailed =>
                  /\ ret.then.to = "fm_reserve" <=> JournalReplays(args)
                  /\ ~JournalReplays(args) => ret.then = Done("Internal", << >>)
            /\ ret.n = 1 /\ ret.fmOK => ret.then.to = "done"
            /\ ret.n = 2 =>
                  /\ ret.then.to = "done"
                  /\ ~ret.fmOK => ret.then.code = "Internal")
    /\ [][ret.fn = "formatAndMount" /\ ret' # ret
            => /\ FirstFailed /\ JournalReplays(args)
               /\ ret'.fn = "formatAndMount" /\ ret'.n = 2
               /\ ret'.options = ret.options \o <<Option("noload")>>]_vars

\* The second formatAndMount of a read-only ext3 Stage with one ordinary
\* flag failed as well: three options, the call returns Internal.
C20_Witness ==
    /\ ret.fn = "formatAndMount" /\ ret.n = 2 /\ ~ret.fmOK
    /\ args.fsType = fsTypeExt3 /\ args.ro
    /\ Len(args.flags) = 1 /\ Len(ret.options) = 3
    /\ ret.options[3] = Option("noload")
    /\ ret.then = Done("Internal", << >>)

-----------------------------------------------------------------------------
\* The read-ahead step.

\* A formatAndMount of a Stage call whose flags carry a read_ahead_kb value
\* that parses has succeeded, and the call has run to its return.
MountedWithReadAhead ==
    /\ ret.fn = "formatAndMount" /\ ret.fmOK /\ ret.then.to = "done"
    /\ extractReadAheadKBMountFlag(args.flags).found

\* The call went on to collaborator c after the mount.
Then(c) == \E i \in DOMAIN ret.then.eff : ret.then.eff[i] = c

\* C21: a Stage call whose formatAndMount succeeded, on the first or the
\* second attempt, and whose flags carry a valid read_ahead_kb has set the
\* read-ahead of the device before it returns success when the device is a
\* block device, and skips the step without failing when it is not.
C21_ReadAheadOnEveryPath ==
    MountedWithReadAhead =>
        /\ ret.then.code = "OK" /\ ret.stat = "block" => Then("setReadAheadKB")
        /\ ret.stat = "notBlock"
              => /\ ~Then("setReadAheadKB")
                 /\ ret.then.code = "OK" => Then("IsBlockDevice")
                 /\ ret.then.code # "OK" /\ ret.then.eff # << >>
                      => ret.then.eff[Len(ret.then.eff)] # "IsBlockDevice"

-----------------------------------------------------------------------------
\* The steps of NodeUnstageVolume.

\* The call in slot p was an Unstage call that took the lock and has returned.
UnstageRan(p) ==
    /\ pc[p] = "done" /\ req[p].op = "Unstage"
    /\ res[p] \notin {"InvalidArgument", "Aborted"}

\* Position of collaborator c among those the call in slot p invoked, 0 when
\* it was not invoked.
At(p, c) ==
    IF Invoked(p, {c}) THEN CHOOSE i \in DOMAIN eff[p] : eff[p][i] = c ELSE 0

\* C22: an Unstage call unmounts first, then runs the in-use check if that is
\* enabled, then tears the cache down if the data cache is enabled on the
\* node; the cache is not torn down in a call whose unmount failed or that
\* the in-use check failed, and a tear-down that fails makes the call return
\* DataLoss, not Internal.
C22_UnstageOrder ==
    \A p \in Procs :
        UnstageRan(p) =>
            LET cacheOn == EnableDataCache /\ DataCacheEnabledNodePool
                last == Len(eff[p])
            IN  /\ res[p] \in {"OK", "Internal", "DataLoss"}
                /\ At(p, "unmount") = 1
                /\ At(p, "confirmDeviceUnused") \in {0, 2}
                /\ At(p, "cleanupCache") \in {0, last}
                /\ last <= 3
                /\ Invoked(p, {"confirmDeviceUnused"})
                      <=> enableDeviceInUseCheck /\ ~(res[p] = "Internal" /\ last = 1)
                /\ Invoked(p, {"cleanupCache"}) <=> cacheOn /\ res[p] \in {"OK", "DataLoss"}
                /\ res[p] = "Internal" => ~Invoked(p, {"cleanupCache"})
                /\ res[p] = "DataLoss" => eff[p][last] = "cleanupCache"
                /\ obs[p] = "inUse" /\ HasRecord(req[p].vol) => res[p] = "Internal"

\* An Unstage call ran all three steps and the tear-down failed.
C22_Witness ==
    \E p \in Procs :
        /\ UnstageRan(p) /\ res[p] = "DataLoss"
        /\ eff[p] = <<"unmount", "confirmDeviceUnused", "cleanupCache">>

-----------------------------------------------------------------------------
\* The recovery of NodePublishVolume.

\* Where the call in slot p invoked Mount, 0 if it did not.
MountAt(p) == At(p, "mount")

\* The call in slot p was a Publish call whose Mount answered an error, and it
\* has returned: the probe of the recovery follows the Mount.
PublishMountFailed(p) ==
    /\ pc[p] = "done" /\ req[p].op = "Publish"
    /\ MountAt(p) > 0 /\ MountAt(p) < Len(eff[p])

\* The positions after the Mount at which the call invoked c.
After(p, c) == { i \in DOMAIN eff[p] : i > MountAt(p) /\ eff[p][i] = c }

\* C23: a Publish call whose Mount failed returns Internal; it unmounts at
\* most once; it removes the target path only right after a probe that found
\* no mount there; when the target is still a mount point after the unmount
\* the path is left in place and the call fails.
C23_MountFailureRecovery ==
    \A p \in Procs :
        PublishMountFailed(p) =>
            /\ res[p] = "Internal"
            /\ eff[p][MountAt(p) + 1] = "IsLikelyNotMountPoint"
            /\ Cardinality(After(p, "unmount")) <= 1
            /\ \A i \in After(p, "remove") :
                  /\ i = Len(eff[p]) /\ eff[p][i - 1] = "IsLikelyNotMountPoint"
                  /\ ~targetMounted[req[p].vol]
            /\ After(p, "unmount") # {} /\ targetMounted[req[p].vol]
                  => After(p, "remove") = {}

\* Mount failed and left a mount behind that the unmount did not take away:
\* the call failed and the target path was not removed.
C23_Witness ==
    \E p \in Procs :
        /\ PublishMountFailed(p) /\ res[p] = "Internal"
        /\ targetMounted[req[p].vol]
        /\ eff[p] = <<"mkdir", "mount", "IsLikelyNotMountPoint", "unmount",
                      "IsLikelyNotMountPoint">>

-----------------------------------------------------------------------------
\* The data cache in NodeStageVolume.

\* The call in slot p is a Stage call with valid fields that carries
\* data-cache parameters.
CacheStage(p) ==
    /\ pc[p] # "idle" /\ req[p].op = "Stage"
    /\ req[p].defect = "none" /\ req[p].cache # "none"

\* It has returned, and not for want of a device path.
CacheStageReturned(p) ==
    /\ CacheStage(p) /\ pc[p] = "done" /\ res[p] # "Aborted"
    /\ ~(res[p] = "Internal" /\ eff[p] = <<"getDevicePath">>)

\* What the claim says of a Stage call with data-cache parameters.
CacheClassified(p) ==
    /\ CacheStageReturned(p) /\ req[p].cache = "invalid" /\ DataCacheEnabledNodePool
          => res[p] = "DataLoss" /\ eff[p] = <<"getDevicePath">>
    /\ CacheStageReturned(p) /\ ~DataCacheEnabledNodePool
          => res[p] = "InvalidArgument" /\ eff[p] = <<"getDevicePath">>
    /\ Invoked(p, {"setupCaching"})
          => /\ req[p].cache = "valid" /\ DataCacheEnabledNodePool
             /\ At(p, "setupCaching") = 2
    /\ Invoked(p, {"formatAndMount"})
          => /\ Invoked(p, {"setupCaching"})
             /\ At(p, "setupCaching") < At(p, "formatAndMount")

InUseFailure(p) == UnstageReturns(p) /\ obs'[p] = "inUse" /\ res'[p] = "Internal"

\* The Unstage call in slot p was issued when the timeout had passed since the
\* caller's retries first saw the device of its volume in use.
PastFirstWindow(p) ==
    \E f \in retryWindow[req[p].vol].first, i \in retryWindow[req[p].vol].issued :
        i >= f + DeviceInUseTimeout

PostMountSteps == {"resize", "IsBlockDevice", "setReadAheadKB", "blkid", "writeSysfs"}

\* The Stage call in slot p leaves, in this step, the preparation that ends
\* with the mount-point probe, and it repeats the request of the call that
\* mounted the staging path and then failed.
RetryPrepares(p) ==
    /\ pc[p] = "stage_locked" /\ pc'[p] # "stage_locked"
    /\ postMountFailure[req[p].vol] = req[p]

\* The Stage call in slot p returns, in this step, a failure of a step after
\* its format+mount, which succeeded.
FailsAfterMount(p) ==
    /\ pc[p] = "fm_run" /\ pc'[p] = "done" /\ res'[p] # "OK"
    /\ eff'[p][Len(eff'[p])] \in PostMountSteps

ReturnsBeside == ret = NoRet /\ ret' # NoRet

\* C27: NodeExpandVolume and NodeGetVolumeStats never return the
\* lock-contention error and leave the lock set, like all state of the
\* lifecycle, as it is; a call of either for v can run to its return in any
\* state, also while a Stage, Publish, Unpublish or Unstage call of v holds
\* the lock of v.
C27_NoLockBeside ==
    /\ [](ret # NoRet => ret.resp.code # "Aborted")
    /\ [](ret = NoRet => ENABLED (ExpandBeside \/ StatsBeside))
    /\ [][ReturnsBeside => /\ volumeLocks' = volumeLocks
                           /\ UNCHANGED <<shared, local>>
                           /\ ret'.locks = volumeLocks]_vars

\* NodeExpandVolume resized the file system of a volume while the Stage call
\* of that volume held its lock.
C27_Witness ==
    /\ ret # NoRet /\ ret.fn = "NodeExpandVolume"
    /\ ret.resp.code = "OK" /\ ret.resp.eff = <<"getDevicePath", "Resize", "getBlockSizeBytes">>
    /\ args.vol \in ret.locks
    /\ ret.serving = {"Stage"}

\* ---------------------------------------------------------------- C28
\* The call in slot p is in the limiter or in its format+mount sequence.
InLimiter(p) == pc[p] \in {"fm_reserve", "fm_run"}

\* A call arrives in slot p, in this step, for a volume whose Stage call is in
\* the limiter or in its format+mount sequence.
ArrivesDuring(p) ==
    /\ Begins(p) /\ req'[p].defect = "none"
    /\ \E q \in Slots \ {p} : InLimiter(q) /\ req[q].vol = req'[p].vol

\* C28: a Stage call holds the lock of its volume while it waits for a slot
\* and while it formats and mounts, and no other call of the volume is in its
\* body then; a lifecycle call of the volume that arrives then returns the
\* lock-contention error at once and changes nothing; a Stage call waits only
\* while a format+mount sequence in progress holds a slot and its own wait is
\* shorter than the slot-wait timeout; and every wait for a slot ends, even if
\* the sequences that hold the slots never finish.
C28_LimiterUnderLock ==
    /\ [](\A p \in Slots :
            InLimiter(p) =>
                /\ req[p].op = "Stage" /\ req[p].vol \in volumeLocks
                /\ \A q \in Slots \ {p} : InBody(q) => req[q].vol # req[p].vol)
    /\ [](\A p \in Slots :
            pc[p] = "fm_reserve" =>
                \/ ENABLED StageReserve(p)
                \/ /\ now - waitSince[p] < FormatAndMountTimeout
                   /\ \E q \in Slots \ {p} : holdsSlot[q] /\ pc[q] = "fm_run")
    /\ [][\A p \in Slots :
            ArrivesDuring(p) => /\ Contended(p)'
                                /\ UNCHANGED <<shared, holdsSlot, waitSince>>]_vars
    /\ \A p \in Slots : (SlotWait(p) /\ WaitInHorizon(p)) ~> ~SlotWait(p)

\* The Stage call of a volume waits for the slot held by the Stage call of
\* another volume, and a call of the first volume has been turned away with
\* the lock-contention error.
C28_Witness ==
    \E p, q, h \in Slots :
        /\ SlotWait(p) /\ req[p].vol \in volumeLocks
        /\ holdsSlot[h] /\ pc[h] = "fm_run" /\ req[h].vol # req[p].vol
        /\ q # p /\ Contended(q) /\ req[q].vol = req[p].vol

\* ---------------------------------------------------------------- C29
\* The Unstage call in slot p returns, in this step, the failure of the cache
\* tear-down.
TearDownFailure(p) == UnstageReturns(p) /\ res'[p] = "DataLoss"

====
